---------------------------- MODULE Spec2Model ----------------------------
(***************************************************************************)
(* Model of kimi_agent_sdk.skills: the polling SkillWatcher (watcher.py)   *)
(* running on an asyncio event loop, and the SkillValidator (validator.py).*)
(*                                                                         *)
(* Watcher.  One SkillWatcher instance, the directory tree it watches, the *)
(* coroutines that call start(), stop() and force_refresh(), and the loop  *)
(* tasks start() creates.  asyncio is cooperative: a coroutine runs from   *)
(* one suspension to the next without any other coroutine of the event     *)
(* loop running.  The variable cpu names the loop task that is in the      *)
(* middle of such a block (0: the event loop is free); the calls of the    *)
(* API and the resumption of a task need cpu = 0.  The file system belongs *)
(* to other processes too, so its actions are enabled at any time.  The    *)
(* event loop schedules the steps that are ready first in first out (the   *)
(* variable ready).                                                        *)
(*                                                                         *)
(* Validator.  One SkillValidator instance and one call of validate() or   *)
(* validate_text() on it.  A document is described by what the code tests  *)
(* of it: the type of a frontmatter value, the length of a string, whether *)
(* it matches the kebab-case pattern, and so on.                           *)
(***************************************************************************)
EXTENDS Integers, Sequences, FiniteSets, TLC

\* ------------------------------------------------------------- bounds
Skills == {"A", "B"}
MaxMtime == 2
MaxTasks == 2

Tasks == 1..MaxTasks

\* ------------------------------------------------------------- paths
\* skill_dir / "SKILL.md"
SkillMd(s) == <<s, "SKILL.md">>
\* skill_md.parent.name
ParentName(p) == p[1]
Paths == {SkillMd(s) : s \in Skills}

\* A SkillChangeEvent (skill_path is the directory of skill_name).
SkillChangeEvent(n, k, p) == [skill_name |-> n, change_type |-> k, file_path |-> p]
NoEvent == [skill_name |-> "", change_type |-> "", file_path |-> <<"", "">>, mtime |-> 0]

\* A dict[Path, float]: 0 stands for "no entry" (a real mtime is >= 1).
EmptyMtimes == [p \in Paths |-> 0]
Keys(m) == {p \in Paths : m[p] # 0}

VARIABLES
    root,          \* the skills_dir on disk: "dir", "missing" or "file"
    disk,          \* per subdirectory: -1 absent, 0 directory without SKILL.md,
                   \*                   m >= 1 directory whose SKILL.md has st_mtime m
    on_change,     \* whether a change handler is registered
    running,       \* self._running
    stopped,       \* self._stopped (the asyncio.Event is set)
    task,          \* self._task: a task id, 0 for None
    mtimes,        \* self._mtimes
    known_skills,  \* self._known_skills (the keys; the value is the directory)
    loops,         \* the loop tasks created by start()
    cpu,           \* the loop task holding the event loop, 0 if none
    ready,         \* the event loop's queue of scheduled steps, first in first out
    stopWait,      \* the loop tasks a suspended stop() awaits
    tainted,       \* history: awaited tasks whose stop() saw a start() begin since
    returned,      \* history: how the last stop() returned that no start() has begun
                   \* after ("" when there is none)
    deliv,         \* history: the change types the handler got for the observed skill
                   \* since that skill last changed on disk (the first two)
    owed,          \* history: the observed skill changed on disk while Running and
                   \* the handler was not called for it since
    last,          \* history: the API call made by the step that led here, with
                   \* what it raised and what it returned (NoLast after any
                   \* other step)
    synced,        \* history: the call ("start" or "force_refresh") that last read
                   \* the baseline from the disk, "" once the disk changed after it
    nonskill,      \* history of the observed subdirectory: "never" while it has had
                   \* no SKILL.md, "gained" from then until the watcher reports it
                   \* or takes it into the baseline, "known" after ("": not kept)
    snap,          \* the dict a caller got from get_known_skills() and what the
                   \* caller made of it (NoSnap: none)
    redo           \* history: the event whose dispatch by a poll scan raised, while
                   \* nothing but poll scans has touched the tree or the baseline
                   \* since that scan began, and how many scans began after it
                   \* (RedoOff: not kept)

VARIABLES
    call,          \* the validator call being made
    errors,        \* SkillValidator._errors
    warnings,      \* SkillValidator._warnings
    result,        \* what the call returned (or raised)
    threads,       \* the calls that threads make on the one validator, each with
                   \* its position and what it has read for its result
    held           \* the calls made one after the other on the one validator,
                   \* each with the result object the caller holds from it

validator == <<call, errors, warnings, result, threads, held>>

vars == <<root, disk, on_change, validator, running, stopped, task, mtimes, known_skills,
          loops, cpu, ready, stopWait, tainted, returned, deliv, owed, last, synced,
          nonskill, snap, redo>>

\* What an API call left in the history: the method, the exception it raised
\* ("" when it returned), the events force_refresh() returned, and the call it
\* came after: for start() "stop" when a stop() had completed since the last
\* start(), for force_refresh() the value of synced it found ("" when a file
\* went away during the call).
Last(op, raised, changes, after) ==
    [op |-> op, raised |-> raised, changes |-> changes, after |-> after]
NoLast == Last("", "", {}, "")

\* For start(): the stop signal is set, so a stop() has run to its end.
AfterStop == IF stopped THEN "stop" ELSE ""

\* ------------------------------------------------------------- loop tasks
NoTask ==
    [pc |-> "none", cancel |-> FALSE, todo |-> {}, cur |-> {}, dels |-> {},
     ev |-> NoEvent, clean |-> FALSE, err |-> FALSE, base0 |-> EmptyMtimes,
     known0 |-> {}, sent |-> <<>>, how |-> "", oserr |-> {}]

NewTask == [NoTask EXCEPT !.pc = "new"]

DoneTask(h) == [NoTask EXCEPT !.pc = "done", !.how = h]

\* A finished task nobody holds a reference to is forgotten (its slot is reused).
Recycle(lp, refs) ==
    [t \in Tasks |-> IF lp[t].pc = "done" /\ t \notin refs THEN NoTask ELSE lp[t]]

\* History: a scan stops being undisturbed when the disk changes under it ...
Disturb(l) == [l EXCEPT !.clean = FALSE, !.base0 = EmptyMtimes, !.known0 = {}]
FsTouched(lp) == [t \in Tasks |-> IF lp[t].clean THEN Disturb(lp[t]) ELSE lp[t]]
\* ... or when somebody else writes the baseline.
BaseTouched(lp, self) ==
    [t \in Tasks |-> IF lp[t].clean /\ t # self THEN Disturb(lp[t]) ELSE lp[t]]

\* History is kept for one skill (the skills are interchangeable).
Observed == "A"
\* Skill s on disk d differs from the baseline m: a poll scan would report it.
Pending(d, m, s) ==
    IF d[s] >= 1 THEN m[SkillMd(s)] # d[s] ELSE m[SkillMd(s)] # 0
\* History: the handler is called with an event of type k for skill s.
Delivered(d, s, k) == IF s = Observed /\ Len(d) < 2 THEN Append(d, k) ELSE d

\* The events of the step being taken: those a scan hands to _emit (the
\* last of a list that grew) and those force_refresh() returns.
StepEvents ==
    {loops'[t].sent[Len(loops'[t].sent)] :
        t \in {u \in Tasks : Len(loops'[u].sent) > Len(loops[u].sent)}}
    \cup last'.changes

\* History of the observed subdirectory after the step being taken.
NonSkill ==
    CASE nonskill = "never" -> IF disk'[Observed] >= 1 THEN "gained" ELSE "never"
      [] nonskill = "gained" ->
           IF \/ mtimes'[SkillMd(Observed)] # 0
              \/ Observed \in known_skills'
              \/ \E e \in StepEvents : e.skill_name = Observed
           THEN "known" ELSE "gained"
      [] OTHER -> nonskill

\* The loop tasks whose call of the handler raised in the step being taken:
\* the exception left _check_changes (the scan failed right at a dispatch or
\* on resuming from the handler), or phase 1 took an OSError of the handler.
\* A DELETED dispatch whose entry was already gone is left out: the del
\* raises KeyError there when the handler returns.
LastSent(l) == l.sent[Len(l.sent)]
RaisedNow ==
    {u \in Tasks :
        /\ loops'[u].sent # <<>>
        /\ \/ loops'[u].oserr # loops[u].oserr /\ loops'[u].oserr # {}
           \/ /\ loops'[u].err /\ ~loops[u].err
              /\ Len(loops'[u].sent) > Len(loops[u].sent) \/ loops[u].pc = "handler"
              /\ ~( /\ LastSent(loops'[u]).change_type = "DELETED"
                    /\ mtimes[LastSent(loops'[u]).file_path] = 0 )}

RedoOff == [on |-> FALSE, ev |-> SkillChangeEvent("", "", <<"", "">>), scans |-> 0]
NoRedo == [RedoOff EXCEPT !.on = TRUE]
\* History of the handler's exceptions after the step being taken.
Redo ==
    IF ~redo.on THEN redo
    ELSE IF RaisedNow # {}
    THEN (LET l == loops'[CHOOSE u \in RaisedNow : TRUE]
          IN  IF l.clean THEN [NoRedo EXCEPT !.ev = LastSent(l)] ELSE NoRedo)
    ELSE IF disk' # disk \/ root' # root \/ last'.op # ""
    THEN NoRedo
    ELSE IF \E u \in Tasks : loops[u].pc = "head" /\ loops'[u].pc \in {"scan", "sleep"}
    THEN (IF redo.ev # NoRedo.ev /\ redo.scans = 0 THEN [redo EXCEPT !.scans = 1]
          ELSE NoRedo)
    ELSE redo

\* No dict was asked for.
NoSnap == [has |-> FALSE, live |-> FALSE, mutated |-> FALSE, val |-> {}]

\* ------------------------------------------------------------- event loop
TaskStep(t) == <<"task", t>>
StopStep(t) == <<"stop", t>>
InReady(x) == \E i \in 1..Len(ready) : ready[i] = x
IsNext(x) == cpu = 0 /\ ready # <<>> /\ Head(ready) = x

\* The orders in which the members of S can be scheduled.
Orders(S) == {q \in [1..Cardinality(S) -> S] : \A i, j \in 1..Cardinality(S) :
                                                  q[i] = q[j] => i = j}
\* The loop tasks suspended in self._stopped.wait() that nothing has woken yet.
Waiters == {t \in Tasks : loops[t].pc = "wait" /\ ~InReady(TaskStep(t))}
\* self._stopped.set() schedules every waiter.
SetStopped(rq) ==
    /\ stopped' = TRUE
    /\ \E q \in Orders(Waiters) :
         ready' = rq \o [i \in 1..Len(q) |-> TaskStep(q[i])]
\* A task that finishes schedules the stop() that awaits it.
Finish(rq, t) == IF t \in stopWait THEN Append(rq, StopStep(t)) ELSE rq

\* ------------------------------------------------------------- file system
\* Other processes create, rewrite and delete skills at any time.  A rewrite
\* gives SKILL.md a timestamp different from the one it had.
FsEffect(S) ==
    /\ loops' = FsTouched(loops)
    /\ deliv' = IF Observed \in S THEN <<>> ELSE deliv
    /\ owed' = IF Observed \in S THEN running /\ Pending(disk', mtimes, Observed) ELSE owed
    /\ last' = NoLast
    /\ synced' = ""
    /\ UNCHANGED <<on_change, validator, snap, running, stopped, task, mtimes, known_skills, cpu,
                   ready, stopWait, tainted, returned>>
    /\ nonskill' = NonSkill
    /\ redo' = Redo

MakeDir(s) ==
    /\ root = "dir" /\ disk[s] = -1
    /\ disk' = [disk EXCEPT ![s] = 0]
    /\ root' = root
    /\ FsEffect({})

WriteSkillMd(s, m) ==
    /\ root = "dir" /\ disk[s] >= 0 /\ m # disk[s]
    /\ disk' = [disk EXCEPT ![s] = m]
    /\ root' = root
    /\ FsEffect({s})

DeleteSkillMd(s) ==
    /\ disk[s] >= 1
    /\ disk' = [disk EXCEPT ![s] = 0]
    /\ root' = root
    /\ FsEffect({s})

RemoveDir(s) ==
    /\ disk[s] >= 0
    /\ disk' = [disk EXCEPT ![s] = -1]
    /\ root' = root
    /\ FsEffect(IF disk[s] >= 1 THEN {s} ELSE {})

RemoveRoot ==
    /\ root # "missing"
    /\ root' = "missing"
    /\ disk' = [s \in Skills |-> -1]
    /\ FsEffect({s \in Skills : disk[s] >= 1})

MakeRoot(kind) ==
    /\ root = "missing"
    /\ root' = kind
    /\ disk' = disk
    /\ FsEffect({})

\* ------------------------------------------------------------- _scan_all
\* A stat() that fails after exists() succeeded is a race with a deletion:
\* the files in fail are gone from the disk when the scan is over.
Raced(d, fail) == [s \in Skills |-> IF s \in fail THEN 0 ELSE d[s]]

StatFailures == IF root = "dir" THEN SUBSET {s \in Skills : disk[s] >= 1} ELSE {{}}

\* A _scan_all that left the dicts as it found them.
ScanAllKeepsDicts(r, d, fail) == [mtimes |-> mtimes, known_skills |-> known_skills]

\* The two dicts _scan_all leaves: cleared, then one entry per subdirectory
\* whose SKILL.md exists and could be stat'ed.
ScanAll(r, d, fail) ==
    IF r # "dir"
    THEN [mtimes |-> EmptyMtimes, known_skills |-> {}]
    ELSE [mtimes |-> [p \in Paths |->
                        IF d[ParentName(p)] >= 1 /\ ParentName(p) \notin fail
                        THEN d[ParentName(p)] ELSE 0],
          known_skills |-> {s \in Skills : d[s] >= 1 /\ s \notin fail}]

\* ------------------------------------------------------------- start, stop
FreeSlots == {t \in Tasks : loops[t].pc = "none"}

\* start() on a watcher that is not running and whose root is a directory:
\* baseline scan, then the loop task is created (it first runs later).
Start ==
    /\ cpu = 0 /\ ~running /\ root = "dir" /\ FreeSlots # {}
    /\ \E fail \in StatFailures :
         LET t == CHOOSE x \in FreeSlots : \A y \in FreeSlots : x <= y
             r == ScanAll(root, disk, fail)
             lp == BaseTouched(IF fail = {} THEN loops ELSE FsTouched(loops), 0)
         IN  /\ mtimes' = r.mtimes
             /\ known_skills' = r.known_skills
             /\ disk' = Raced(disk, fail)
             /\ running' = TRUE
             /\ stopped' = FALSE
             /\ task' = t
             /\ loops' = Recycle([lp EXCEPT ![t] = NewTask], stopWait \cup {t})
             /\ ready' = Append(ready, TaskStep(t))
             /\ synced' = IF fail = {} THEN "start" ELSE ""
    /\ tainted' = stopWait
    /\ returned' = ""
    /\ deliv' = <<>>
    /\ owed' = FALSE
    /\ last' = Last("start", "", {}, AfterStop)
    /\ UNCHANGED <<root, on_change, validator, snap, cpu, stopWait>>
    /\ nonskill' = NonSkill
    /\ redo' = Redo

\* A start() on a running watcher that took a new baseline all the same.
StartNoopRescans ==
    /\ cpu = 0 /\ running
    /\ mtimes' = ScanAll(root, disk, {}).mtimes
    /\ known_skills' = ScanAll(root, disk, {}).known_skills
    /\ tainted' = stopWait
    /\ returned' = ""
    /\ last' = Last("start", "", {}, AfterStop)
    /\ UNCHANGED <<root, disk, on_change, validator, snap, synced, running, stopped, task,
                   loops, cpu, ready, stopWait, deliv, owed>>
    /\ nonskill' = NonSkill
    /\ redo' = Redo

\* start() on a running watcher returns at once.
StartNoop ==
    /\ cpu = 0 /\ running
    /\ tainted' = stopWait
    /\ returned' = ""
    /\ last' = Last("start", "", {}, AfterStop)
    /\ UNCHANGED <<root, disk, on_change, validator, snap, synced, running, stopped, task, mtimes,
                   known_skills, loops, cpu, ready, stopWait, deliv, owed>>
    /\ nonskill' = NonSkill
    /\ redo' = Redo

\* What start() raises for a root that is not a directory.
StartError(r) == IF r = "missing" THEN "FileNotFoundError" ELSE "NotADirectoryError"

\* A start() that marked the watcher running before it looked at the root.
StartFailsRunning ==
    /\ cpu = 0 /\ ~running /\ root # "dir"
    /\ running' = TRUE
    /\ tainted' = stopWait
    /\ returned' = ""
    /\ last' = Last("start", StartError(root), {}, AfterStop)
    /\ UNCHANGED <<root, disk, on_change, validator, snap, synced, stopped, task, mtimes,
                   known_skills, loops, cpu, ready, stopWait, deliv, owed>>
    /\ nonskill' = NonSkill
    /\ redo' = Redo

\* start() raises FileNotFoundError or NotADirectoryError.
StartFails ==
    /\ cpu = 0 /\ ~running /\ root # "dir"
    /\ tainted' = stopWait
    /\ returned' = ""
    /\ last' = Last("start", StartError(root), {}, AfterStop)
    /\ UNCHANGED <<root, disk, on_change, validator, snap, synced, running, stopped, task, mtimes,
                   known_skills, loops, cpu, ready, stopWait, deliv, owed>>
    /\ nonskill' = NonSkill
    /\ redo' = Redo

\* stop() on a running watcher whose task field is None or names a finished
\* task: nothing to await, the stop signal is set and stop() returns.
StopAtOnce ==
    /\ cpu = 0 /\ running
    /\ IF task = 0 THEN TRUE ELSE loops[task].pc = "done"
    /\ running' = FALSE
    /\ task' = 0
    /\ SetStopped(ready)
    /\ returned' = "notask"
    /\ loops' = Recycle(loops, stopWait)
    /\ last' = Last("stop", "", {}, "")
    /\ UNCHANGED <<root, disk, on_change, validator, snap, synced, mtimes, known_skills, cpu, stopWait,
                   tainted, deliv, owed>>
    /\ nonskill' = NonSkill
    /\ redo' = Redo

\* A stop() that cancelled the loop task and left _running as it was.
StopKeepsRunning ==
    /\ cpu = 0 /\ running /\ task # 0
    /\ loops[task].pc # "done"
    /\ running' = running
    /\ loops' = [loops EXCEPT ![task].cancel = TRUE]
    /\ ready' = IF InReady(TaskStep(task)) THEN ready ELSE Append(ready, TaskStep(task))
    /\ stopWait' = stopWait \cup {task}
    /\ tainted' = tainted \ {task}
    /\ last' = Last("stop", "", {}, "")
    /\ UNCHANGED <<root, disk, on_change, validator, snap, synced, stopped, task, mtimes, known_skills,
                   cpu, returned, deliv, owed>>
    /\ nonskill' = NonSkill
    /\ redo' = Redo

\* stop() on a running watcher, up to its await of the loop task: the task is
\* cancelled; a task suspended in the handler or in the wait is scheduled to
\* receive the CancelledError there.
Stop ==
    /\ cpu = 0 /\ running /\ task # 0
    /\ loops[task].pc # "done"
    /\ running' = FALSE
    /\ loops' = [loops EXCEPT ![task].cancel = TRUE]
    /\ ready' = IF InReady(TaskStep(task)) THEN ready ELSE Append(ready, TaskStep(task))
    /\ stopWait' = stopWait \cup {task}
    /\ tainted' = tainted \ {task}
    /\ last' = Last("stop", "", {}, "")
    /\ UNCHANGED <<root, disk, on_change, validator, snap, synced, stopped, task, mtimes, known_skills,
                   cpu, returned, deliv, owed>>
    /\ nonskill' = NonSkill
    /\ redo' = Redo

\* stop() on a watcher that is not running returns at once.
StopNoop ==
    /\ cpu = 0 /\ ~running
    /\ last' = Last("stop", "", {}, "")
    /\ UNCHANGED <<root, disk, on_change, validator, snap, synced, running, stopped, task, mtimes,
                   known_skills, loops, cpu, ready, stopWait, tainted, returned, deliv,
                   owed>>
    /\ nonskill' = NonSkill
    /\ redo' = Redo

\* The awaited task has finished: stop() resumes, forgets the task field and
\* sets the stop signal.
StopResume(t) ==
    /\ IsNext(StopStep(t))
    /\ task' = 0
    /\ SetStopped(Tail(ready))
    /\ stopWait' = stopWait \ {t}
    /\ tainted' = tainted \ {t}
    /\ returned' = IF t \in tainted THEN returned ELSE loops[t].how
    /\ loops' = Recycle(loops, stopWait')
    /\ last' = NoLast
    /\ UNCHANGED <<root, disk, on_change, validator, snap, synced, running, mtimes, known_skills, cpu,
                   deliv, owed>>
    /\ nonskill' = NonSkill
    /\ redo' = Redo

\* ------------------------------------------------------------- force_refresh
\* The events force_refresh computes from the saved and the rescanned dicts.
RefreshChanges(old_mtimes, old_skills, new_mtimes, new_skills) ==
    { SkillChangeEvent(n, "CREATED", SkillMd(n)) :
        n \in {x \in new_skills : x \notin old_skills} }
    \cup
    { SkillChangeEvent(n, "DELETED", SkillMd(n)) :
        n \in {x \in old_skills : x \notin new_skills} }
    \cup
    { SkillChangeEvent(n, "MODIFIED", SkillMd(n)) :
        n \in {x \in old_skills \cap new_skills :
                 old_mtimes[SkillMd(x)] # new_mtimes[SkillMd(x)]} }

\* _scan_all on a root that exists and is no directory: the dicts are cleared,
\* then iterdir() raises, and force_refresh() raises with it.
RefreshError(r) == IF r = "file" THEN "NotADirectoryError" ELSE ""

ForceRefresh ==
    /\ cpu = 0
    /\ \E fail \in StatFailures :
         LET r == ScanAll(root, disk, fail)
         IN  /\ mtimes' = r.mtimes
             /\ last' = IF RefreshError(root) # ""
                        THEN Last("force_refresh", RefreshError(root), {}, synced)
                        ELSE Last("force_refresh", "",
                                  RefreshChanges(mtimes, known_skills,
                                                 r.mtimes, r.known_skills),
                                  IF fail = {} THEN synced ELSE "")
             /\ synced' = IF fail = {} THEN "force_refresh" ELSE ""
             /\ known_skills' = r.known_skills
             /\ disk' = Raced(disk, fail)
             /\ loops' = BaseTouched(IF fail = {} THEN loops ELSE FsTouched(loops), 0)
             /\ deliv' = IF Observed \in fail THEN <<>> ELSE deliv
             /\ owed' = IF Observed \in fail
                        THEN running /\ Pending(disk', mtimes', Observed) ELSE owed
    /\ UNCHANGED <<root, on_change, validator, snap, running, stopped, task, cpu, ready, stopWait,
                   tainted, returned>>
    /\ nonskill' = NonSkill
    /\ redo' = Redo

\* ------------------------------------------------------------- get_known_skills
\* A get_known_skills() that returned the dict of the watcher itself.
get_known_skills_live == [has |-> TRUE, live |-> TRUE, mutated |-> FALSE, val |-> known_skills]

\* return self._known_skills.copy(): a new dict with the entries of this moment.
get_known_skills == [has |-> TRUE, live |-> FALSE, mutated |-> FALSE, val |-> known_skills]

\* The entries of the dict the caller holds.
SnapVal == IF snap.live THEN known_skills ELSE snap.val

\* The baseline is as a baseline scan left it: the call before was a
\* force_refresh() that returned, or a start() whose loop task has not run
\* yet, and the disk has not changed since that scan.
BaselineFresh ==
    /\ synced # "" /\ last.raised = ""
    /\ \/ last.op = "force_refresh"
       \/ last.op = "start" /\ task # 0 /\ loops[task].pc = "new"

GetKnownSkills ==
    /\ cpu = 0
    /\ snap' = get_known_skills
    /\ last' = Last("get_known_skills", "", {}, IF BaselineFresh THEN synced ELSE "")
    /\ UNCHANGED <<root, disk, on_change, validator, synced, running, stopped, task, mtimes,
                   known_skills, loops, cpu, ready, stopWait, tainted, returned, deliv,
                   owed, nonskill, redo>>

\* The caller adds the key n to the dict it got, or removes it.
MutateSnapshot(n) ==
    /\ cpu = 0 /\ snap.has
    /\ LET v == IF n \in SnapVal THEN SnapVal \ {n} ELSE SnapVal \cup {n}
       IN  /\ snap' = [snap EXCEPT !.val = v, !.mutated = TRUE]
           /\ known_skills' = IF snap.live THEN v ELSE known_skills
    /\ last' = NoLast
    /\ UNCHANGED <<root, disk, on_change, validator, synced, running, stopped, task, mtimes,
                   loops, cpu, ready, stopWait, tainted, returned, deliv, owed, nonskill,
                   redo>>

\* ------------------------------------------------------------- _watch_loop
\* What one call of the handler does: it returns, it raises, or (a coroutine
\* function) it suspends.  A suspended handler that is cancelled lets the
\* CancelledError propagate.
Outcomes == {"return", "raise", "suspend"}

\* The loop task runs for the first time.
LoopStart(t) ==
    /\ IsNext(TaskStep(t))
    /\ loops[t].pc = "new" /\ ~loops[t].cancel
    /\ loops' = [loops EXCEPT ![t].pc = "head"]
    /\ cpu' = t
    /\ ready' = Tail(ready)
    /\ last' = NoLast
    /\ UNCHANGED <<root, disk, on_change, validator, snap, synced, running, stopped, task, mtimes,
                   known_skills, stopWait, tainted, returned, deliv, owed>>
    /\ nonskill' = NonSkill
    /\ redo' = Redo

\* A loop task that went on to the test of the while when scheduled after a
\* cancellation.
LoopCancelIgnored(t) ==
    /\ IsNext(TaskStep(t))
    /\ loops[t].cancel
    /\ loops' = [loops EXCEPT ![t] = [NoTask EXCEPT !.pc = "head"]]
    /\ cpu' = t
    /\ ready' = Tail(ready)
    /\ last' = NoLast
    /\ UNCHANGED <<root, disk, on_change, validator, snap, synced, running, stopped, task, mtimes,
                   known_skills, stopWait, tainted, returned, deliv, owed>>
    /\ nonskill' = NonSkill
    /\ redo' = Redo

\* A cancelled task is scheduled: one that never ran is finished without
\* running; one suspended in the handler gets the CancelledError there, which
\* leaves _check_changes and is caught by the loop's break; one suspended in
\* the wait gets it there and is finished by it.
LoopCancelled(t) ==
    /\ IsNext(TaskStep(t))
    /\ loops[t].cancel
    /\ loops' = [loops EXCEPT ![t] = DoneTask(loops[t].pc)]
    /\ ready' = Finish(Tail(ready), t)
    /\ last' = NoLast
    /\ UNCHANGED <<root, disk, on_change, validator, snap, synced, running, stopped, task, mtimes,
                   known_skills, cpu, stopWait, tainted, returned, deliv, owed>>
    /\ nonskill' = NonSkill
    /\ redo' = Redo

\* while self._running: the test fails, the coroutine returns.
LoopExit(t) ==
    /\ cpu = t /\ loops[t].pc = "head" /\ ~running
    /\ loops' = Recycle([loops EXCEPT ![t] = DoneTask("exit")], stopWait \cup {task})
    /\ cpu' = 0
    /\ ready' = Finish(ready, t)
    /\ last' = NoLast
    /\ UNCHANGED <<root, disk, on_change, validator, snap, synced, running, stopped, task, mtimes,
                   known_skills, stopWait, tainted, returned, deliv, owed>>
    /\ nonskill' = NonSkill
    /\ redo' = Redo

\* A loop without the except clause: the exception ends the task.
FailedEndsLoop(l) == DoneTask("error")

\* An exception other than CancelledError leaves _check_changes; the loop
\* prints it and goes on to the wait.
Failed(l) == [l EXCEPT !.pc = "sleep", !.err = TRUE, !.todo = {}, !.cur = {},
                       !.dels = {}, !.ev = NoEvent]

\* A _check_changes that cleared both dicts on a missing root, as _scan_all does.
BeginScanClears(t) ==
    /\ cpu = t /\ loops[t].pc = "head" /\ running
    /\ LET l == [loops[t] EXCEPT !.clean = TRUE, !.err = FALSE, !.base0 = mtimes,
                                 !.known0 = known_skills, !.sent = <<>>]
       IN  loops' = [loops EXCEPT ![t] =
                       CASE root = "missing" -> [l EXCEPT !.pc = "sleep"]
                         [] root = "file" -> Failed(l)
                         [] OTHER -> [l EXCEPT !.pc = "scan",
                                               !.todo = {s \in Skills : disk[s] >= 0}]]
    /\ mtimes' = IF root = "missing" THEN EmptyMtimes ELSE mtimes
    /\ known_skills' = IF root = "missing" THEN {} ELSE known_skills
    /\ last' = NoLast
    /\ UNCHANGED <<root, disk, on_change, validator, snap, synced, running, stopped, task,
                   cpu, ready, stopWait, tainted, returned, deliv, owed>>
    /\ nonskill' = NonSkill
    /\ redo' = Redo

\* _check_changes begins: a missing root ends it at once, a root that is not a
\* directory makes iterdir() raise, otherwise the directory is listed.
BeginScan(t) ==
    /\ cpu = t /\ loops[t].pc = "head" /\ running
    /\ LET l == [loops[t] EXCEPT !.clean = TRUE, !.err = FALSE, !.base0 = mtimes,
                                 !.known0 = known_skills, !.sent = <<>>]
       IN  loops' = [loops EXCEPT ![t] =
                       CASE root = "missing" -> [l EXCEPT !.pc = "sleep"]
                         [] root = "file" -> Failed(l)
                         [] OTHER -> [l EXCEPT !.pc = "scan",
                                               !.todo = {s \in Skills : disk[s] >= 0}]]
    /\ last' = NoLast
    /\ UNCHANGED <<root, disk, on_change, validator, snap, synced, running, stopped, task, mtimes,
                   known_skills, cpu, ready, stopWait, tainted, returned, deliv, owed>>
    /\ nonskill' = NonSkill
    /\ redo' = Redo

\* A scan that took a directory without SKILL.md for a skill.
ScanSkipKnown(t, s) ==
    /\ cpu = t /\ loops[t].pc = "scan" /\ s \in loops[t].todo
    /\ disk[s] < 1
    /\ loops' = [loops EXCEPT ![t].todo = @ \ {s}, ![t].cur = @ \cup {s}]
    /\ last' = NoLast
    /\ UNCHANGED <<root, disk, on_change, validator, snap, synced, running, stopped, task, mtimes,
                   known_skills, cpu, ready, stopWait, tainted, returned, deliv, owed>>
    /\ nonskill' = NonSkill
    /\ redo' = Redo

\* An entry that is not a directory, or a directory without SKILL.md.
ScanSkip(t, s) ==
    /\ cpu = t /\ loops[t].pc = "scan" /\ s \in loops[t].todo
    /\ disk[s] < 1
    /\ loops' = [loops EXCEPT ![t].todo = @ \ {s}]
    /\ last' = NoLast
    /\ UNCHANGED <<root, disk, on_change, validator, snap, synced, running, stopped, task, mtimes,
                   known_skills, cpu, ready, stopWait, tainted, returned, deliv, owed>>
    /\ nonskill' = NonSkill
    /\ redo' = Redo

\* SKILL.md exists and is recorded as current, then stat() raises OSError
\* (the file went away in between).
ScanStatFails(t, s) ==
    /\ cpu = t /\ loops[t].pc = "scan" /\ s \in loops[t].todo
    /\ disk[s] >= 1
    /\ disk' = [disk EXCEPT ![s] = 0]
    /\ loops' = FsTouched([loops EXCEPT ![t].todo = @ \ {s}, ![t].cur = @ \cup {s}])
    /\ deliv' = IF s = Observed THEN <<>> ELSE deliv
    /\ owed' = IF s = Observed THEN running /\ Pending(disk', mtimes, Observed) ELSE owed
    /\ last' = NoLast
    /\ synced' = ""
    /\ UNCHANGED <<root, on_change, validator, snap, running, stopped, task, mtimes, known_skills,
                   cpu, ready, stopWait, tainted, returned>>
    /\ nonskill' = NonSkill
    /\ redo' = Redo

\* A phase 1 that compared timestamps only, taking "no entry" for a timestamp.
ChangeOfTimestampOnly(p, m) ==
    IF mtimes[p] # m THEN "MODIFIED" ELSE ""

\* The event phase 1 builds for a SKILL.md with timestamp m ("" for none).
ChangeOf(p, m) ==
    IF mtimes[p] # 0
    THEN (IF mtimes[p] # m THEN "MODIFIED" ELSE "")
    ELSE "CREATED"

\* SKILL.md is unchanged, or there is no handler: the timestamp is recorded.
ScanQuiet(t, s) ==
    /\ cpu = t /\ loops[t].pc = "scan" /\ s \in loops[t].todo
    /\ disk[s] >= 1
    /\ ChangeOf(SkillMd(s), disk[s]) = "" \/ ~on_change
    /\ mtimes' = [mtimes EXCEPT ![SkillMd(s)] = disk[s]]
    /\ loops' = BaseTouched([loops EXCEPT ![t].todo = @ \ {s}, ![t].cur = @ \cup {s}], t)
    /\ last' = NoLast
    /\ UNCHANGED <<root, disk, on_change, validator, snap, synced, running, stopped, task, known_skills,
                   cpu, ready, stopWait, tainted, returned, deliv, owed>>
    /\ nonskill' = NonSkill
    /\ redo' = Redo

\* SKILL.md is new or modified: the handler is called with the event.  The
\* timestamp is recorded when the handler has returned.  The call is inside
\* the try of the stat(): an OSError the handler raises is taken by the
\* except OSError, and the scan goes on with the next directory.
ScanEmit(t, s, o) ==
    /\ cpu = t /\ loops[t].pc = "scan" /\ s \in loops[t].todo
    /\ disk[s] >= 1 /\ on_change
    /\ ChangeOf(SkillMd(s), disk[s]) # ""
    /\ LET k == ChangeOf(SkillMd(s), disk[s])
           e == SkillChangeEvent(s, k, SkillMd(s))
           l == [loops[t] EXCEPT !.todo = @ \ {s}, !.cur = @ \cup {s},
                                 !.sent = Append(@, e)]
       IN  /\ deliv' = Delivered(deliv, s, k)
           /\ owed' = IF s = Observed THEN FALSE ELSE owed
           /\ CASE o = "return" ->
                     /\ mtimes' = [mtimes EXCEPT ![SkillMd(s)] = disk[s]]
                     /\ loops' = BaseTouched([loops EXCEPT ![t] = l], t)
                     /\ cpu' = cpu
                [] o = "raise" ->
                     /\ loops' = [loops EXCEPT ![t] = Failed(l)]
                     /\ UNCHANGED <<mtimes, cpu>>
                [] o = "raise OSError" ->
                     /\ loops' = [loops EXCEPT ![t] = [l EXCEPT !.oserr = @ \cup {s}]]
                     /\ UNCHANGED <<mtimes, cpu>>
                [] OTHER ->
                     /\ loops' = [loops EXCEPT ![t] =
                                    [l EXCEPT !.pc = "handler",
                                              !.ev = [skill_name |-> s, change_type |-> k,
                                                      file_path |-> SkillMd(s),
                                                      mtime |-> disk[s]]]]
                     /\ cpu' = 0
                     /\ mtimes' = mtimes
    /\ last' = NoLast
    /\ UNCHANGED <<root, disk, on_change, validator, snap, synced, running, stopped, task, known_skills,
                   ready, stopWait, tainted, returned>>
    /\ nonskill' = NonSkill
    /\ redo' = Redo

\* A phase 2 that took every path of the baseline for deleted.
BeginDeletesAll(t) ==
    /\ cpu = t /\ loops[t].pc = "scan" /\ loops[t].todo = {}
    /\ loops' = [loops EXCEPT ![t].pc = "del",
                              ![t].dels = Keys(mtimes)]
    /\ last' = NoLast
    /\ UNCHANGED <<root, disk, on_change, validator, snap, synced, running, stopped, task, mtimes,
                   known_skills, cpu, ready, stopWait, tainted, returned, deliv, owed>>
    /\ nonskill' = NonSkill
    /\ redo' = Redo

\* Phase 1 is over: list(self._mtimes.keys()), of which the paths not seen
\* in phase 1 are the deleted ones.
BeginDeletes(t) ==
    /\ cpu = t /\ loops[t].pc = "scan" /\ loops[t].todo = {}
    /\ loops' = [loops EXCEPT ![t].pc = "del",
                              ![t].dels = {p \in Keys(mtimes) : ParentName(p) \notin loops[t].cur}]
    /\ last' = NoLast
    /\ UNCHANGED <<root, disk, on_change, validator, snap, synced, running, stopped, task, mtimes,
                   known_skills, cpu, ready, stopWait, tainted, returned, deliv, owed>>
    /\ nonskill' = NonSkill
    /\ redo' = Redo

\* del self._mtimes[skill_md] and the removal from _known_skills, in loop
\* task t whose record is l; the del raises KeyError when the entry is gone.
Forget(t, l, p) ==
    IF mtimes[p] = 0
    THEN /\ loops' = [loops EXCEPT ![t] = Failed(l)]
         /\ UNCHANGED <<mtimes, known_skills>>
    ELSE /\ mtimes' = [mtimes EXCEPT ![p] = 0]
         /\ known_skills' = known_skills \ {ParentName(p)}
         /\ loops' = BaseTouched([loops EXCEPT ![t] = [l EXCEPT !.pc = "del"]], t)

\* A deleted path without a handler: the entries are removed.
DelSkip(t, p) ==
    /\ cpu = t /\ loops[t].pc = "del" /\ p \in loops[t].dels
    /\ ~on_change
    /\ Forget(t, [loops[t] EXCEPT !.dels = @ \ {p}], p)
    /\ last' = NoLast
    /\ UNCHANGED <<root, disk, on_change, validator, snap, synced, running, stopped, task, cpu, ready,
                   stopWait, tainted, returned, deliv, owed>>
    /\ nonskill' = NonSkill
    /\ redo' = Redo

\* A deleted path: the handler is called with the DELETED event.  The entries
\* are removed when the handler has returned.
DelEmit(t, p, o) ==
    /\ cpu = t /\ loops[t].pc = "del" /\ p \in loops[t].dels
    /\ on_change
    /\ LET e == SkillChangeEvent(ParentName(p), "DELETED", p)
           l == [loops[t] EXCEPT !.dels = @ \ {p}, !.sent = Append(@, e)]
       IN  /\ deliv' = Delivered(deliv, ParentName(p), "DELETED")
           /\ owed' = IF ParentName(p) = Observed THEN FALSE ELSE owed
           /\ CASE o = "return" ->
                     /\ Forget(t, l, p)
                     /\ cpu' = cpu
                [] o = "raise" ->
                     /\ loops' = [loops EXCEPT ![t] = Failed(l)]
                     /\ UNCHANGED <<mtimes, known_skills, cpu>>
                [] OTHER ->
                     /\ loops' = [loops EXCEPT ![t] =
                                    [l EXCEPT !.pc = "handler",
                                              !.ev = [skill_name |-> ParentName(p),
                                                      change_type |-> "DELETED",
                                                      file_path |-> p, mtime |-> 0]]]
                     /\ cpu' = 0
                     /\ UNCHANGED <<mtimes, known_skills>>
    /\ last' = NoLast
    /\ UNCHANGED <<root, disk, on_change, validator, snap, synced, running, stopped, task, ready,
                   stopWait, tainted, returned>>
    /\ nonskill' = NonSkill
    /\ redo' = Redo

\* self._known_skills = current_skills
EndScan(t) ==
    /\ cpu = t /\ loops[t].pc = "del" /\ loops[t].dels = {}
    /\ known_skills' = loops[t].cur
    /\ loops' = BaseTouched([loops EXCEPT ![t].pc = "sleep"], t)
    /\ last' = NoLast
    /\ UNCHANGED <<root, disk, on_change, validator, snap, synced, running, stopped, task, mtimes, cpu,
                   ready, stopWait, tainted, returned, deliv, owed>>
    /\ nonskill' = NonSkill
    /\ redo' = Redo

\* The coroutine the handler returned completes: the loop task is scheduled.
HandlerDone(t) ==
    /\ loops[t].pc = "handler" /\ ~InReady(TaskStep(t))
    /\ ready' = Append(ready, TaskStep(t))
    /\ last' = NoLast
    /\ UNCHANGED <<root, disk, on_change, validator, snap, synced, running, stopped, task, mtimes,
                   known_skills, loops, cpu, stopWait, tainted, returned, deliv, owed>>
    /\ nonskill' = NonSkill
    /\ redo' = Redo

\* The loop task resumes after the handler returned: phase 1 records the
\* timestamp it read before the call, phase 2 removes the entries.
HandlerReturn(t) ==
    /\ IsNext(TaskStep(t))
    /\ loops[t].pc = "handler" /\ ~loops[t].cancel
    /\ cpu' = t
    /\ ready' = Tail(ready)
    /\ IF loops[t].ev.change_type = "DELETED"
       THEN Forget(t, [loops[t] EXCEPT !.ev = NoEvent], loops[t].ev.file_path)
       ELSE /\ mtimes' = [mtimes EXCEPT ![loops[t].ev.file_path] = loops[t].ev.mtime]
            /\ known_skills' = known_skills
            /\ loops' = BaseTouched([loops EXCEPT ![t].pc = "scan", ![t].ev = NoEvent], t)
    /\ last' = NoLast
    /\ UNCHANGED <<root, disk, on_change, validator, snap, synced, running, stopped, task, stopWait,
                   tainted, returned, deliv, owed>>
    /\ nonskill' = NonSkill
    /\ redo' = Redo

\* A loop that recorded the timestamp, or removed the entries, although the
\* handler raised.
HandlerRaiseRecords(t) ==
    /\ IsNext(TaskStep(t))
    /\ loops[t].pc = "handler" /\ ~loops[t].cancel
    /\ cpu' = t
    /\ ready' = Tail(ready)
    /\ loops' = [loops EXCEPT ![t] = Failed(loops[t])]
    /\ mtimes' = [mtimes EXCEPT ![loops[t].ev.file_path] = loops[t].ev.mtime]
    /\ known_skills' = IF loops[t].ev.change_type = "DELETED"
                       THEN known_skills \ {loops[t].ev.skill_name} ELSE known_skills
    /\ last' = NoLast
    /\ UNCHANGED <<root, disk, on_change, validator, snap, synced, running, stopped, task,
                   stopWait, tainted, returned, deliv, owed>>
    /\ nonskill' = NonSkill
    /\ redo' = Redo

\* The loop task resumes with the exception the handler raised.
HandlerRaise(t) ==
    /\ IsNext(TaskStep(t))
    /\ loops[t].pc = "handler" /\ ~loops[t].cancel
    /\ cpu' = t
    /\ ready' = Tail(ready)
    /\ loops' = [loops EXCEPT ![t] = Failed(loops[t])]
    /\ last' = NoLast
    /\ UNCHANGED <<root, disk, on_change, validator, snap, synced, running, stopped, task, mtimes,
                   known_skills, stopWait, tainted, returned, deliv, owed>>
    /\ nonskill' = NonSkill
    /\ redo' = Redo

\* The loop task resumes with an OSError the handler raised for a CREATED or
\* MODIFIED event: the except OSError of phase 1 takes it, the timestamp is
\* not recorded and the scan goes on.
HandlerRaiseOSError(t) ==
    /\ IsNext(TaskStep(t))
    /\ loops[t].pc = "handler" /\ ~loops[t].cancel
    /\ loops[t].ev.change_type # "DELETED"
    /\ cpu' = t
    /\ ready' = Tail(ready)
    /\ loops' = [loops EXCEPT ![t].pc = "scan", ![t].ev = NoEvent,
                              ![t].oserr = @ \cup {loops[t].ev.skill_name}]
    /\ last' = NoLast
    /\ UNCHANGED <<root, disk, on_change, validator, snap, synced, running, stopped, task, mtimes,
                   known_skills, stopWait, tainted, returned, deliv, owed>>
    /\ nonskill' = NonSkill
    /\ redo' = Redo

\* wait_for(self._stopped.wait(), poll_interval): with the stop signal set it
\* returns without suspending, otherwise the task suspends.  The history of
\* the scan is dropped, but for err: it says up to the next scan that the
\* last one raised.
Sleep(t) ==
    /\ cpu = t /\ loops[t].pc = "sleep"
    /\ loops' = [loops EXCEPT ![t] = [NoTask EXCEPT !.pc = IF stopped THEN "head" ELSE "wait",
                                                     !.err = loops[t].err]]
    /\ cpu' = IF stopped THEN t ELSE 0
    /\ last' = NoLast
    /\ UNCHANGED <<root, disk, on_change, validator, snap, synced, running, stopped, task, mtimes,
                   known_skills, ready, stopWait, tainted, returned, deliv, owed>>
    /\ nonskill' = NonSkill
    /\ redo' = Redo

\* poll_interval has passed: the waiting task is scheduled.
TimerFires(t) ==
    /\ loops[t].pc = "wait" /\ ~InReady(TaskStep(t))
    /\ ready' = Append(ready, TaskStep(t))
    /\ last' = NoLast
    /\ UNCHANGED <<root, disk, on_change, validator, snap, synced, running, stopped, task, mtimes,
                   known_skills, loops, cpu, stopWait, tainted, returned, deliv, owed>>
    /\ nonskill' = NonSkill
    /\ redo' = Redo

\* The wait is over, by the timeout or by the stop signal: back to the test
\* of the while.
WaitOver(t) ==
    /\ IsNext(TaskStep(t))
    /\ loops[t].pc = "wait" /\ ~loops[t].cancel
    /\ loops' = [loops EXCEPT ![t].pc = "head"]
    /\ cpu' = t
    /\ ready' = Tail(ready)
    /\ last' = NoLast
    /\ UNCHANGED <<root, disk, on_change, validator, snap, synced, running, stopped, task, mtimes,
                   known_skills, stopWait, tainted, returned, deliv, owed>>
    /\ nonskill' = NonSkill
    /\ redo' = Redo

\* ------------------------------------------------------------- validator
MAX_NAME_LENGTH == 64
MAX_DESCRIPTION_LENGTH == 1024
MAX_COMPATIBILITY_LENGTH == 500
\* len(description) < 50
ShortDescription == 50
\* len(lines) > 500
LongBody == 500

\* A frontmatter value (Absent: the key is not in the mapping).  Of a string: len is its length after strip(), pad
\* the leading and trailing whitespace strip() removes, kebab whether the
\* stripped string matches ^[a-z0-9-]+$, hyphens whether it neither starts
\* nor ends with a hyphen nor contains "--", angle whether it contains < or >,
\* same whether stripped it equals the directory name.
Absent == [type |-> "absent"]
Null == [type |-> "NoneType"]
IntValue(truthy) == [type |-> "int", truthy |-> truthy]
Str(n, pad, kebab, hyphens, angle, same) ==
    [type |-> "str", len |-> n, pad |-> pad, kebab |-> kebab, hyphens |-> hyphens,
     angle |-> angle, same |-> same]

IsStr(v) == v.type = "str"
\* if name:
Truthy(v) ==
    CASE v.type = "NoneType" -> FALSE
      [] v.type = "int" -> v.truthy
      [] OTHER -> v.len + v.pad > 0

\* The strings the model draws: lengths on both sides of each limit.
Strings(lens) ==
    {Str(0, pad, FALSE, TRUE, FALSE, FALSE) : pad \in {0, 1}}
    \cup {Str(n, 0, c[1], c[2], c[3], same) :
            n \in lens \ {0}, same \in BOOLEAN,
            c \in {<<TRUE, TRUE, FALSE>>, <<TRUE, FALSE, FALSE>>,
                   <<FALSE, TRUE, FALSE>>, <<FALSE, TRUE, TRUE>>}}
NonStrings == {Null, IntValue(FALSE), IntValue(TRUE)}

\* A kebab-case name written with whitespace around it.
PaddedNames == {Str(1, 1, TRUE, TRUE, FALSE, same) : same \in BOOLEAN}

NameValues ==
    NonStrings \cup {v \in Strings({1, MAX_NAME_LENGTH, MAX_NAME_LENGTH + 1}) : ~v.angle}
               \cup PaddedNames
DescriptionValues ==
    NonStrings \cup {v \in Strings({ShortDescription - 1, ShortDescription,
                                    MAX_DESCRIPTION_LENGTH, MAX_DESCRIPTION_LENGTH + 1}) :
                       ~v.same /\ ~v.kebab}
CompatibilityValues ==
    {Null, IntValue(FALSE)}
    \cup {Str(n, 0, FALSE, TRUE, FALSE, FALSE) :
            n \in {MAX_COMPATIBILITY_LENGTH, MAX_COMPATIBILITY_LENGTH + 1}}

ALLOWED_PROPERTIES ==
    {"name", "description", "license", "allowed-tools", "metadata", "compatibility"}

\* A frontmatter mapping: the values of the three keys the code reads
\* (Absent for a key it does not have) and the keys it has besides
\* ("author" is a string key that is not allowed, "7" a key that is not a
\* string).
OtherKeys == {{}, {"license"}, {"author"}, {"7"}}
NonStringKeys == {"7"}
Frontmatters ==
    [name : NameValues \cup {Absent}, description : DescriptionValues \cup {Absent},
     compatibility : CompatibilityValues \cup {Absent}, others : OtherKeys]
Has(fm, k) == fm[k].type # "absent"
KeysOf(fm) == {k \in {"name", "description", "compatibility"} : Has(fm, k)} \cup fm.others

\* The body after strip(): whether it is empty, has a line starting "# ",
\* one starting "## ", its number of lines, whether a fence ``` occurs in it
\* and whether ```\w+ does (a fence with a word character right after it).
Bodies ==
    {[empty |-> TRUE, h1 |-> FALSE, h2 |-> FALSE, lines |-> 1, fence |-> FALSE,
      code |-> FALSE]}
    \cup {b \in [empty : {FALSE}, h1 : BOOLEAN, h2 : BOOLEAN,
                  lines : {LongBody, LongBody + 1}, fence : BOOLEAN, code : BOOLEAN] :
             b.code => b.fence}

Acc(e, w) == [errors |-> e, warnings |-> w]

validate_required_fields(fm, a) ==
    Acc(a.errors
          \o (IF ~Has(fm, "name") THEN <<"Missing required field: 'name'">> ELSE <<>>)
          \o (IF ~Has(fm, "description")
              THEN <<"Missing required field: 'description'">> ELSE <<>>),
        a.warnings)

\* The name branch of _validate_field_values; v is frontmatter.get("name", "").
validate_name(v, a) ==
    IF ~Truthy(v) THEN a
    ELSE IF ~IsStr(v) THEN Acc(Append(a.errors, "'name' must be a string"), a.warnings)
    ELSE IF v.len = 0 THEN Acc(Append(a.errors, "'name' cannot be empty"), a.warnings)
    ELSE IF ~v.kebab THEN Acc(Append(a.errors, "'name' should be kebab-case"), a.warnings)
    ELSE IF ~v.hyphens
      THEN Acc(Append(a.errors, "'name' cannot start/end with hyphen"), a.warnings)
    ELSE IF v.len > MAX_NAME_LENGTH
      THEN Acc(Append(a.errors, "'name' is too long"), a.warnings)
    ELSE IF ~v.same
      THEN Acc(a.errors, Append(a.warnings, "'name' does not match directory name"))
    ELSE a

\* A description branch that refuses a short description instead of warning.
validate_description_short_error(v, a) ==
    IF ~Truthy(v) THEN a
    ELSE IF ~IsStr(v)
      THEN Acc(Append(a.errors, "'description' must be a string"), a.warnings)
    ELSE IF v.len = 0
      THEN Acc(Append(a.errors, "'description' cannot be empty"), a.warnings)
    ELSE IF v.angle
      THEN Acc(Append(a.errors, "'description' cannot contain angle brackets"), a.warnings)
    ELSE IF v.len > MAX_DESCRIPTION_LENGTH
      THEN Acc(Append(a.errors, "'description' is too long"), a.warnings)
    ELSE IF v.len < ShortDescription
      THEN Acc(Append(a.errors, "'description' is quite short"), a.warnings)
    ELSE a

\* The description branch; v is frontmatter.get("description", "").
validate_description(v, a) ==
    IF ~Truthy(v) THEN a
    ELSE IF ~IsStr(v)
      THEN Acc(Append(a.errors, "'description' must be a string"), a.warnings)
    ELSE IF v.len = 0
      THEN Acc(Append(a.errors, "'description' cannot be empty"), a.warnings)
    ELSE IF v.angle
      THEN Acc(Append(a.errors, "'description' cannot contain angle brackets"), a.warnings)
    ELSE IF v.len > MAX_DESCRIPTION_LENGTH
      THEN Acc(Append(a.errors, "'description' is too long"), a.warnings)
    ELSE IF v.len < ShortDescription
      THEN Acc(a.errors, Append(a.warnings, "'description' is quite short"))
    ELSE a

\* The compatibility branch; the key is present with value v.
validate_compatibility(v, a) ==
    IF v.type = "NoneType" THEN a
    ELSE IF ~IsStr(v)
      THEN Acc(Append(a.errors, "'compatibility' must be a string"), a.warnings)
    ELSE IF v.len + v.pad > MAX_COMPATIBILITY_LENGTH
      THEN Acc(Append(a.errors, "'compatibility' is too long"), a.warnings)
    ELSE a

EmptyStr == Str(0, 0, FALSE, TRUE, FALSE, FALSE)

validate_field_values(fm, a) ==
    LET a1 == validate_name(IF Has(fm, "name") THEN fm.name ELSE EmptyStr, a)
        a2 == validate_description(
                  IF Has(fm, "description") THEN fm.description ELSE EmptyStr, a1)
    IN  IF Has(fm, "compatibility") THEN validate_compatibility(fm.compatibility, a2)
        ELSE a2

\* set(frontmatter.keys()) - ALLOWED_PROPERTIES
Unexpected(fm) == KeysOf(fm) \ ALLOWED_PROPERTIES
\* ', '.join(sorted(unexpected)) raises TypeError for a key that is no string.
PropertiesRaise(fm) == Unexpected(fm) \cap NonStringKeys # {}

validate_properties(fm, a) ==
    IF Unexpected(fm) # {}
    THEN Acc(Append(a.errors, "Unexpected properties in frontmatter"), a.warnings)
    ELSE a

validate_body(body, a) ==
    IF body.empty THEN Acc(a.errors, Append(a.warnings, "SKILL.md body is empty"))
    ELSE Acc(a.errors,
             a.warnings
               \o (IF ~body.h1 THEN <<"No H1 heading (# Title) found in body">> ELSE <<>>)
               \o (IF ~body.h2 THEN <<"No H2 sections (## Section) found in body">> ELSE <<>>)
               \o (IF body.lines > LongBody THEN <<"Body is quite long">> ELSE <<>>)
               \o (IF ~body.code THEN <<"No code blocks found">> ELSE <<>>))

\* _create_result: the result of the accumulators a; fm is the frontmatter
\* argument (Absent-valued when the call passes none or an empty mapping).
NoFrontmatter ==
    [name |-> Absent, description |-> Absent, compatibility |-> Absent, others |-> {}]
\* A result that counted warnings against validity.
create_result_strict(a, fm) ==
    [raised |-> "", is_valid |-> Len(a.errors) = 0 /\ Len(a.warnings) = 0,
     errors |-> a.errors, warnings |-> a.warnings,
     skill_name |-> IF Has(fm, "name") THEN fm.name ELSE Null,
     description |-> IF Has(fm, "description") THEN fm.description ELSE Null]

create_result(a, fm) ==
    [raised |-> "", is_valid |-> Len(a.errors) = 0, errors |-> a.errors,
     warnings |-> a.warnings,
     skill_name |-> IF Has(fm, "name") THEN fm.name ELSE Null,
     description |-> IF Has(fm, "description") THEN fm.description ELSE Null]

\* A call that raised returns no result.
Raised(exc) ==
    [raised |-> exc, is_valid |-> FALSE, errors |-> <<>>, warnings |-> <<>>,
     skill_name |-> Null, description |-> Null]
NoResult == Raised("no call")

\* A SKILL.md content: whether it starts with "---", whether its lines end
\* with "\r\n" (crlf) and not with "\n", whether the frontmatter pattern finds
\* an opening and a closing --- line in it, what yaml.safe_load makes of the
\* frontmatter text ("ImportError": no yaml module, "YAMLError", "scalar": a
\* value that is no dict, "dict"), the mapping and the body.
Loads == {"ImportError", "YAMLError", "scalar", "dict"}
PlainBody ==
    [empty |-> FALSE, h1 |-> TRUE, h2 |-> TRUE, lines |-> LongBody, fence |-> TRUE,
     code |-> TRUE]
LfContents ==
    {[starts |-> st[1], crlf |-> FALSE, block |-> st[2], yaml |-> st[3],
      frontmatter |-> NoFrontmatter, body |-> PlainBody] :
        st \in {<<FALSE, FALSE, "dict">>, <<TRUE, FALSE, "dict">>} \cup
               {<<TRUE, TRUE, y>> : y \in Loads \ {"dict"}}}
    \cup [starts : {TRUE}, crlf : {FALSE}, block : {TRUE}, yaml : {"dict"},
          frontmatter : Frontmatters, body : Bodies]
\* The same texts written with "\r\n" line ends (those with the plain body,
\* no compatibility and no further key).
CrlfContents ==
    {[c EXCEPT !.crlf = TRUE] :
        c \in {d \in LfContents : /\ d.body = PlainBody
                                  /\ d.frontmatter.compatibility = Absent
                                  /\ d.frontmatter.others = {}}}
Contents == LfContents \cup CrlfContents

\* Path.read_text(encoding="utf-8") opens the file in text mode with
\* newline=None: every "\r\n" of the file comes back as "\n".
read_text(content) == [content EXCEPT !.crlf = FALSE]

\* re.match(r"^---\n(.*?)\n---", content, re.DOTALL): the pattern wants "\n"
\* right after the opening ---, so a text with "\r\n" line ends has no match.
frontmatter_match(content) == content.block /\ ~content.crlf

\* _validate_content as a function: the accumulators it leaves and what it
\* returns, from the accumulators a.
validate_content(content, a) ==
    IF ~content.starts
    THEN LET e == Acc(Append(a.errors, "YAML frontmatter must start at line 1"), a.warnings)
         IN  [acc |-> e, result |-> create_result(e, NoFrontmatter)]
    ELSE IF ~frontmatter_match(content)
    THEN LET e == Acc(Append(a.errors, "Invalid frontmatter format"), a.warnings)
         IN  [acc |-> e, result |-> create_result(e, NoFrontmatter)]
    ELSE IF content.yaml = "scalar"
    THEN LET e == Acc(Append(a.errors, "Frontmatter must be a YAML dictionary"), a.warnings)
         IN  [acc |-> e, result |-> create_result(e, NoFrontmatter)]
    ELSE IF content.yaml = "ImportError"
    THEN LET e == Acc(Append(a.errors, "PyYAML is required for validation"), a.warnings)
         IN  [acc |-> e, result |-> create_result(e, NoFrontmatter)]
    ELSE IF content.yaml = "YAMLError"
    THEN LET e == Acc(Append(a.errors, "Invalid YAML in frontmatter"), a.warnings)
         IN  [acc |-> e, result |-> create_result(e, NoFrontmatter)]
    ELSE LET fm == content.frontmatter
             a2 == validate_field_values(fm, validate_required_fields(fm, a))
             a3 == validate_properties(fm, a2)
             a4 == validate_body(content.body, a3)
         IN  IF PropertiesRaise(fm)
             THEN [acc |-> a2, result |-> Raised("TypeError")]
             ELSE [acc |-> a4, result |-> create_result(a4, fm)]

\* What validate() finds at skill_path before it reads SKILL.md.
PathErrors ==
    {"Skill path does not exist", "Skill path is not a directory", "SKILL.md not found",
     "SKILL.md is not a file", "SKILL.md is not valid UTF-8", "Cannot read SKILL.md"}

Calls ==
    [api : {"validate"}, path : PathErrors, content : {CHOOSE c \in LfContents : ~c.starts}]
    \cup [api : {"validate", "validate_text"}, path : {"ok"}, content : Contents]

\* The text _validate_content gets in the call c: validate() passes what
\* read_text() returns, validate_text() its argument as it is.
Text(c) == IF c.api = "validate" THEN read_text(c.content) ELSE c.content

\* A validate() that went on to the content after a failed path check.
validate_without_return(c) ==
    IF c.path # "ok"
    THEN validate_content(read_text(c.content), Acc(<<c.path>>, <<>>))
    ELSE validate_content(read_text(c.content), Acc(<<>>, <<>>))

\* validate(skill_path) as a function of the call c.
validate(c) ==
    IF c.path # "ok"
    THEN LET e == Acc(<<c.path>>, <<>>)
         IN  [acc |-> e, result |-> create_result(e, NoFrontmatter)]
    ELSE validate_content(read_text(c.content), Acc(<<>>, <<>>))

\* A validate_text() that goes on with the lists the instance has.
validate_text_carry(c) == validate_content(c.content, Acc(errors, warnings))

\* validate_text(content, skill_name) as a function of the call c.
validate_text(c) == validate_content(c.content, Acc(<<>>, <<>>))

Validate ==
    /\ call.api = "validate" /\ result = NoResult
    /\ LET r == validate(call)
       IN  /\ errors' = r.acc.errors
           /\ warnings' = r.acc.warnings
           /\ result' = r.result
    /\ UNCHANGED <<root, disk, on_change, call, threads, held, running, stopped, task, mtimes,
                   known_skills, loops, cpu, ready, stopWait, tainted, returned,
                   deliv, owed, last, synced, nonskill, snap, redo>>

ValidateText ==
    /\ call.api = "validate_text" /\ result = NoResult
    /\ LET r == validate_text(call)
       IN  /\ errors' = r.acc.errors
           /\ warnings' = r.acc.warnings
           /\ result' = r.result
    /\ UNCHANGED <<root, disk, on_change, call, threads, held, running, stopped, task, mtimes,
                   known_skills, loops, cpu, ready, stopWait, tainted, returned,
                   deliv, owed, last, synced, nonskill, snap, redo>>

\* ------------------------------------------------------------- threads
\* Threads call validate() and validate_text() on one SkillValidator.  A
\* thread switch can come between any two statements; each action below is one
\* statement or one helper call of a thread.  self._errors and self._warnings
\* are looked up at every use, so an append goes to the list that is bound at
\* that moment.
MaxThreads == 2
Threads == 1..MaxThreads

NoCall == [api |-> "", path |-> "ok", content |-> CHOOSE c \in LfContents : ~c.starts]

\* A thread: where it is in its call, the call, and the values _create_result
\* has read so far.
NoThread ==
    [pc |-> "idle", call |-> NoCall, is_valid |-> FALSE, errors |-> <<>>,
     result |-> NoResult]

\* The calls the threads make: a document without defect, one without name and
\* with an empty body, and a path that does not exist.
GoodDoc ==
    [starts |-> TRUE, crlf |-> FALSE, block |-> TRUE, yaml |-> "dict",
     frontmatter |-> [name |-> Str(1, 0, TRUE, TRUE, FALSE, TRUE),
                      description |-> Str(ShortDescription, 0, FALSE, TRUE, FALSE, FALSE),
                      compatibility |-> Absent, others |-> {}],
     body |-> PlainBody]
BadDoc ==
    [GoodDoc EXCEPT !.frontmatter.name = Absent,
                    !.body = [empty |-> TRUE, h1 |-> FALSE, h2 |-> FALSE, lines |-> 1,
                              fence |-> FALSE, code |-> FALSE]]
ThreadCalls ==
    {[api |-> "validate_text", path |-> "ok", content |-> GoodDoc],
     [api |-> "validate", path |-> "ok", content |-> BadDoc],
     [api |-> "validate", path |-> "Skill path does not exist", content |-> NoCall.content]}

Watcher ==
    <<root, disk, on_change, running, stopped, task, mtimes, known_skills, loops, cpu,
      ready, stopWait, tainted, returned, deliv, owed, last, synced, nonskill, snap,
      redo>>

\* ------------------------------------------------------------- calls in a row
\* One caller makes up to MaxCalls calls on the validator, one after the other,
\* and keeps every result.  Besides the calls of the threads: the text of the
\* document with defects, and a text with a key that is no string, whose call
\* raises TypeError after errors were appended.
MaxCalls == 3
KeyDoc == [BadDoc EXCEPT !.frontmatter.others = NonStringKeys]
SequenceCalls ==
    ThreadCalls \cup {[api |-> "validate_text", path |-> "ok", content |-> BadDoc],
                      [api |-> "validate_text", path |-> "ok", content |-> KeyDoc]}

\* A call the caller made and the result object it got; live: the errors and
\* warnings lists of the result are the very lists self._errors and
\* self._warnings are bound to.
Held(c, r, l) == [call |-> c, result |-> r, live |-> l]
\* self._errors = [] and self._warnings = [] bind new lists: a list the
\* instance had until then is not reached through the instance any more.
Rebind(h) == [k \in 1..Len(h) |-> [h[k] EXCEPT !.live = FALSE]]
\* What the caller reads in a result it holds.
Seen(h) ==
    IF h.live THEN [h.result EXCEPT !.errors = errors, !.warnings = warnings]
    ELSE h.result

\* The whole call c on the instance as it is: the two lists are bound anew,
\* the checks run, and _create_result builds the result from copies of the
\* lists (errors=self._errors.copy(), warnings=self._warnings.copy()), so the
\* result does not share them.
CallAgain(c) ==
    /\ Len(held) < MaxCalls
    /\ LET r == IF c.api = "validate" THEN validate(c) ELSE validate_text(c)
       IN  /\ call' = c
           /\ errors' = r.acc.errors
           /\ warnings' = r.acc.warnings
           /\ result' = r.result
           /\ held' = Append(Rebind(held), Held(c, r.result, FALSE))
    /\ UNCHANGED <<Watcher, threads>>

ValidateAgain == \E c \in {d \in SequenceCalls : d.api = "validate"} : CallAgain(c)
ValidateTextAgain == \E c \in {d \in SequenceCalls : d.api = "validate_text"} : CallAgain(c)

\* The thread enters validate() or validate_text(): self._errors = []
Enter(i) ==
    /\ threads[i].pc = "idle"
    /\ \E c \in ThreadCalls : threads' = [threads EXCEPT ![i].pc = "entered", ![i].call = c]
    /\ errors' = <<>>
    /\ UNCHANGED <<Watcher, held, call, warnings, result>>

\* self._warnings = []
ResetWarnings(i) ==
    /\ threads[i].pc = "entered"
    /\ warnings' = <<>>
    /\ threads' = [threads EXCEPT ![i].pc = "structure"]
    /\ UNCHANGED <<Watcher, held, call, errors, result>>

\* The checks that return early: the path checks of validate() and the
\* frontmatter checks of _validate_content, each appending its one error.
StructureError(c) ==
    IF c.api = "validate" /\ c.path # "ok" THEN c.path
    ELSE IF ~c.content.starts THEN "YAML frontmatter must start at line 1"
    ELSE IF ~frontmatter_match(Text(c)) THEN "Invalid frontmatter format"
    ELSE IF c.content.yaml = "scalar" THEN "Frontmatter must be a YAML dictionary"
    ELSE IF c.content.yaml = "ImportError" THEN "PyYAML is required for validation"
    ELSE IF c.content.yaml = "YAMLError" THEN "Invalid YAML in frontmatter"
    ELSE ""

Structure(i) ==
    /\ threads[i].pc = "structure"
    /\ LET e == StructureError(threads[i].call)
       IN  IF e # ""
           THEN /\ errors' = Append(errors, e)
                /\ threads' = [threads EXCEPT ![i].pc = "is_valid"]
           ELSE /\ errors' = errors
                /\ threads' = [threads EXCEPT ![i].pc = "required"]
    /\ UNCHANGED <<Watcher, held, call, warnings, result>>

\* One helper of _validate_content has run on the lists bound at that moment
\* and left the accumulators a.
Helper(i, at, then, a) ==
    /\ threads[i].pc = at
    /\ errors' = a.errors
    /\ warnings' = a.warnings
    /\ threads' = [threads EXCEPT ![i].pc = then]
    /\ UNCHANGED <<Watcher, held, call, result>>

RequiredFields(i) ==
    Helper(i, "required", "fields",
           validate_required_fields(threads[i].call.content.frontmatter,
                                    Acc(errors, warnings)))

FieldValues(i) ==
    Helper(i, "fields", "properties",
           validate_field_values(threads[i].call.content.frontmatter,
                                 Acc(errors, warnings)))

\* _validate_properties, which raises TypeError out of the call for a key
\* that is no string.
Properties(i) ==
    /\ threads[i].pc = "properties"
    /\ LET fm == threads[i].call.content.frontmatter
           a == validate_properties(fm, Acc(errors, warnings))
       IN  IF PropertiesRaise(fm)
           THEN /\ threads' = [threads EXCEPT ![i].pc = "done",
                                              ![i].result = Raised("TypeError")]
                /\ UNCHANGED <<errors, warnings>>
           ELSE /\ threads' = [threads EXCEPT ![i].pc = "body"]
                /\ errors' = a.errors
                /\ warnings' = a.warnings
    /\ UNCHANGED <<Watcher, held, call, result>>

Body(i) ==
    Helper(i, "body", "is_valid",
           validate_body(threads[i].call.content.body, Acc(errors, warnings)))

\* _create_result evaluates its arguments in order: len(self._errors) == 0 ...
ReadIsValid(i) ==
    /\ threads[i].pc = "is_valid"
    /\ threads' = [threads EXCEPT ![i].pc = "errors", ![i].is_valid = (Len(errors) = 0)]
    /\ UNCHANGED <<Watcher, held, call, errors, warnings, result>>

\* ... self._errors.copy() ...
CopyErrors(i) ==
    /\ threads[i].pc = "errors"
    /\ threads' = [threads EXCEPT ![i].pc = "warnings", ![i].errors = errors]
    /\ UNCHANGED <<Watcher, held, call, errors, warnings, result>>

\* ... self._warnings.copy(), and the result is built and returned.
CopyWarnings(i) ==
    /\ threads[i].pc = "warnings"
    /\ LET c == threads[i].call
           fm == IF StructureError(c) = "" THEN c.content.frontmatter ELSE NoFrontmatter
       IN  threads' = [threads EXCEPT
                         ![i].pc = "done",
                         ![i].result =
                             [create_result(Acc(threads[i].errors, warnings), fm)
                                EXCEPT !.is_valid = threads[i].is_valid]]
    /\ UNCHANGED <<Watcher, held, call, errors, warnings, result>>

\* ------------------------------------------------------------- specifications
\* The fields after __init__ and the empty history; ns starts the history of
\* the observed subdirectory.
InitFields(ns, rd) ==
    /\ running = FALSE
    /\ stopped = FALSE
    /\ task = 0
    /\ mtimes = EmptyMtimes
    /\ known_skills = {}
    /\ loops = [t \in Tasks |-> NoTask]
    /\ cpu = 0
    /\ ready = <<>>
    /\ stopWait = {}
    /\ tainted = {}
    /\ returned = ""
    /\ deliv = <<>>
    /\ owed = FALSE
    /\ last = NoLast
    /\ synced = ""
    /\ nonskill = ns
    /\ snap = NoSnap
    /\ redo = rd

\* The watcher after __init__, with or without a handler.
InitWatcher ==
    /\ on_change \in BOOLEAN
    /\ InitFields("", RedoOff)

\* The validator after __init__, no call made.
InitValidator ==
    /\ errors = <<>>
    /\ warnings = <<>>
    /\ result = NoResult
    /\ threads = [i \in Threads |-> NoThread]
    /\ held = <<>>

Init ==
    /\ root \in {"dir", "missing"}
    /\ disk \in [Skills -> -1..MaxMtime]
    /\ root = "missing" => \A s \in Skills : disk[s] = -1
    /\ InitWatcher
    /\ call = NoCall /\ InitValidator

FileSystem(S) ==
    \/ \E s \in S : MakeDir(s) \/ DeleteSkillMd(s) \/ RemoveDir(s)
    \/ \E s \in S, m \in 1..MaxMtime : WriteSkillMd(s, m)
    \/ RemoveRoot
    \/ \E kind \in {"dir", "file"} : MakeRoot(kind)

Scan(t) ==
    \/ BeginScan(t)
    \/ \E s \in Skills : ScanSkip(t, s) \/ ScanStatFails(t, s) \/ ScanQuiet(t, s)
    \/ \E s \in Skills, o \in Outcomes : ScanEmit(t, s, o)
    \/ BeginDeletes(t)
    \/ \E p \in Paths : DelSkip(t, p)
    \/ \E p \in Paths, o \in Outcomes : DelEmit(t, p, o)
    \/ EndScan(t)
    \/ HandlerDone(t) \/ HandlerReturn(t) \/ HandlerRaise(t)

Loop(t) ==
    \/ LoopStart(t) \/ LoopCancelled(t) \/ Scan(t)
    \/ Sleep(t) \/ TimerFires(t) \/ WaitOver(t)
    \/ StopResume(t)

\* One owner uses the watcher: it makes its calls one after the other, so no
\* call begins while a stop() is suspended.  Then stop() always finds the task
\* it cancels, and the loop never sees _running false (StopAtOnce and LoopExit
\* are never enabled).
OwnerStart == stopWait = {} /\ Start
OwnerStartNoop == stopWait = {} /\ StartNoop
OwnerStartFails == stopWait = {} /\ StartFails
OwnerStop == stopWait = {} /\ Stop
OwnerStopNoop == stopWait = {} /\ StopNoop
OwnerForceRefresh == stopWait = {} /\ ForceRefresh

Next ==
    \/ FileSystem(Skills)
    \/ OwnerStart \/ OwnerStartNoop \/ OwnerStartFails
    \/ OwnerStop \/ OwnerStopNoop
    \/ OwnerForceRefresh
    \/ \E t \in Tasks : Loop(t)

Spec == Init /\ [][Next]_vars

\* One owner, and a tree restricted to the skills of OneSkill (the other
\* subdirectories never exist).
OneSkill == {Observed}

OneSkillInit ==
    /\ root \in {"dir", "missing"}
    /\ disk \in [Skills -> -1..MaxMtime]
    /\ \A s \in Skills : (root = "missing" \/ s \notin OneSkill) => disk[s] = -1
    /\ InitWatcher
    /\ call = NoCall /\ InitValidator

OneSkillNext ==
    \/ FileSystem(OneSkill)
    \/ OwnerStart \/ OwnerStartNoop \/ OwnerStartFails
    \/ OwnerStop \/ OwnerStopNoop
    \/ OwnerForceRefresh
    \/ \E t \in Tasks : Loop(t)

OneSkillSpec == OneSkillInit /\ [][OneSkillNext]_vars

\* One owner and one skill, with the history of the observed subdirectory
\* kept from the construction of the watcher.
NonSkillInit ==
    /\ root \in {"dir", "missing"}
    /\ disk \in [Skills -> -1..MaxMtime]
    /\ \A s \in Skills : (root = "missing" \/ s \notin OneSkill) => disk[s] = -1
    /\ on_change \in BOOLEAN
    /\ InitFields(IF disk[Observed] >= 1 THEN "gained" ELSE "never", RedoOff)
    /\ call = NoCall /\ InitValidator

NonSkillSpec == NonSkillInit /\ [][OneSkillNext]_vars

\* One owner and one skill; the owner also asks for the known skills and
\* changes the dict it got.
SnapshotNext ==
    \/ OneSkillNext
    \/ GetKnownSkills
    \/ \E n \in Skills : MutateSnapshot(n)

SnapshotSpec == OneSkillInit /\ [][SnapshotNext]_vars

\* One owner that uses the watcher through "async with": __aenter__ awaits
\* start() and returns the watcher, __aexit__ awaits stop() whatever it is
\* given (exc: the body returned, "", or raised).
ExitArgs == {"", "Exception"}
AEnter == OwnerStart \/ OwnerStartNoop \/ OwnerStartFails
AExit(exc) == OwnerStop \/ OwnerStopNoop

ScopeNext ==
    \/ FileSystem(OneSkill)
    \/ AEnter
    \/ \E exc \in ExitArgs : AExit(exc)
    \/ OwnerForceRefresh
    \/ \E t \in Tasks : Loop(t)

ScopeSpec == OneSkillInit /\ [][ScopeNext]_vars

\* One owner that starts and stops the watcher, on a root that stays a
\* directory while the skills in it come and go.
TreeInit ==
    /\ root = "dir"
    /\ disk \in [Skills -> -1..MaxMtime]
    /\ on_change \in BOOLEAN
    /\ InitFields("", RedoOff)
    /\ call = NoCall /\ InitValidator

TreeNext ==
    \/ \E s \in Skills : MakeDir(s) \/ DeleteSkillMd(s) \/ RemoveDir(s)
    \/ \E s \in Skills, m \in 1..MaxMtime : WriteSkillMd(s, m)
    \/ OwnerStart \/ OwnerStop
    \/ \E t \in Tasks : Loop(t)

TreeSpec == TreeInit /\ [][TreeNext]_vars

\* The poll loop with a handler that also raises OSError, and the history of
\* the handler's exceptions kept.
RaiseInit ==
    /\ root = "dir"
    /\ disk \in [Skills -> -1..MaxMtime]
    /\ on_change \in BOOLEAN
    /\ InitFields("", NoRedo)
    /\ call = NoCall /\ InitValidator

RaiseNext ==
    \/ TreeNext
    \/ \E t \in Tasks :
          \/ \E s \in Skills : ScanEmit(t, s, "raise OSError")
          \/ HandlerRaiseOSError(t)

RaiseSpec == RaiseInit /\ [][RaiseNext]_vars

\* Several coroutines use the watcher: a call begins whenever the event loop
\* is free.  The tree is restricted to the skills of RaceSkills.
RaceSkills == {"A"}

RaceInit ==
    /\ root \in {"dir", "missing"}
    /\ disk \in [Skills -> -1..MaxMtime]
    /\ \A s \in Skills : (root = "missing" \/ s \notin RaceSkills) => disk[s] = -1
    /\ InitWatcher
    /\ call = NoCall /\ InitValidator

RaceNext ==
    \/ FileSystem(RaceSkills)
    \/ Start \/ StartNoop \/ StartFails \/ Stop \/ StopAtOnce \/ StopNoop
    \/ ForceRefresh
    \/ \E t \in Tasks : Loop(t) \/ LoopExit(t)

RaceSpec == RaceInit /\ [][RaceNext]_vars

\* One call of the validator on a new instance, for every document.
ValidatorInit ==
    /\ call \in Calls
    /\ InitValidator
    /\ root = "dir" /\ disk = [s \in Skills |-> -1] /\ on_change = FALSE
    /\ InitWatcher

ValidatorNext == Validate \/ ValidateText

ValidatorSpec == ValidatorInit /\ [][ValidatorNext]_vars

\* The validator used by MaxThreads threads, one call each.
ThreadsInit ==
    /\ call = NoCall /\ InitValidator
    /\ root = "dir" /\ disk = [s \in Skills |-> -1] /\ on_change = FALSE
    /\ InitWatcher

ThreadsNext ==
    \E i \in Threads :
        \/ Enter(i) \/ ResetWarnings(i) \/ Structure(i)
        \/ RequiredFields(i) \/ FieldValues(i) \/ Properties(i) \/ Body(i)
        \/ ReadIsValid(i) \/ CopyErrors(i) \/ CopyWarnings(i)

ThreadsSpec == ThreadsInit /\ [][ThreadsNext]_vars

\* The validator used by one caller for MaxCalls calls in a row.
SequenceNext == ValidateAgain \/ ValidateTextAgain

SequenceSpec == ThreadsInit /\ [][SequenceNext]_vars

\* ------------------------------------------------------------- properties
\* The events loop task t has passed to the handler in its current scan.
SentSet(t) == {loops[t].sent[i] : i \in 1..Len(loops[t].sent)}
EventsFor(t, s) == SelectSeq(loops[t].sent, LAMBDA e : e.skill_name = s)
\* _check_changes of loop task t is over, and from its beginning on nothing
\* but this scan touched the tree or the baseline.
ScanOver(t) == loops[t].pc = "sleep" /\ loops[t].clean
\* No loop task is inside _check_changes.
NoScan == \A t \in Tasks : loops[t].pc \in {"none", "new", "wait", "done"}
\* A loop task that exists and was not cancelled.
Active(t) == loops[t].pc \notin {"none", "done"} /\ ~loops[t].cancel

\* C1: an undisturbed poll scan that begins with skill a in the baseline at the
\* timestamp it has on disk, and with skill b on disk but not in the baseline,
\* calls the handler exactly once for b, with a CREATED event, and never for a.
C1_CreatedOnce ==
    \A t \in Tasks, a \in Skills, b \in Skills :
        ( /\ a # b /\ ScanOver(t) /\ on_change
          /\ disk[a] >= 1 /\ loops[t].base0[SkillMd(a)] = disk[a]
          /\ disk[b] >= 1 /\ loops[t].base0[SkillMd(b)] = 0 )
        => /\ EventsFor(t, b) = <<SkillChangeEvent(b, "CREATED", SkillMd(b))>>
           /\ EventsFor(t, a) = <<>>

C1_Witness ==
    \E t \in Tasks :
        /\ ScanOver(t) /\ on_change
        /\ disk["A"] >= 1 /\ loops[t].base0[SkillMd("A")] = disk["A"]
        /\ disk["B"] >= 1 /\ loops[t].base0[SkillMd("B")] = 0
        /\ loops[t].sent = <<SkillChangeEvent("B", "CREATED", SkillMd("B"))>>

\* C2: between two changes of a SKILL.md on disk the handler gets at most one
\* MODIFIED event for it.
C2_ModifiedOnce ==
    ~(Len(deliv) = 2 /\ deliv[1] = "MODIFIED" /\ deliv[2] = "MODIFIED")

\* C3: between two changes of a SKILL.md on disk the handler gets at most one
\* DELETED event for it, and when an undisturbed scan that passed DELETED for a
\* skill to the handler is over, the skill is not among the known skills.
C3_DeletedOnce ==
    /\ ~(Len(deliv) = 2 /\ deliv[1] = "DELETED" /\ deliv[2] = "DELETED")
    /\ \A t \in Tasks, s \in Skills :
         (ScanOver(t) /\ SkillChangeEvent(s, "DELETED", SkillMd(s)) \in SentSet(t))
         => s \notin known_skills

\* The advisory messages.
Advisory ==
    {"'name' does not match directory name", "'description' is quite short",
     "SKILL.md body is empty", "No H1 heading (# Title) found in body",
     "No H2 sections (## Section) found in body", "Body is quite long",
     "No code blocks found"}
\* The call c with every advisory condition taken away: a body with headings
\* and code, a name equal to the directory name, a description that is not short.
Canonical(c) ==
    LET fm == c.content.frontmatter
        n == fm.name
        d == fm.description
    IN  [c EXCEPT !.content.body = PlainBody,
                  !.content.frontmatter.name =
                      IF n.type = "str" /\ n.len > 0 THEN [n EXCEPT !.same = TRUE] ELSE n,
                  !.content.frontmatter.description =
                      IF d.type = "str" /\ d.len = ShortDescription - 1
                      THEN [d EXCEPT !.len = ShortDescription] ELSE d]
ResultOf(c) == IF c.api = "validate" THEN validate(c).result ELSE validate_text(c).result

\* C4: a result that was returned has is_valid true exactly when its errors are
\* empty; no advisory message is among its errors; and its errors and its
\* is_valid are those of the same call with every advisory condition taken away.
C4_ValidIffNoErrors ==
    (result # NoResult /\ result.raised = "")
    => /\ result.is_valid = (result.errors = <<>>)
       /\ \A i \in 1..Len(result.errors) : result.errors[i] \notin Advisory
       /\ result.errors = ResultOf(Canonical(call)).errors
       /\ result.is_valid = ResultOf(Canonical(call)).is_valid

C4_Witness ==
    /\ result.raised = "" /\ result.is_valid
    /\ Len(result.warnings) >= 2
    /\ result # ResultOf(Canonical(call))

\* C5: at most one loop task is active at any time.
C5_OneLoop == Cardinality({t \in Tasks : Active(t)}) <= 1

\* C6: once a stop() has returned, and until a start() begins, no loop task
\* is in a scan or in a handler call.
C6_NothingInFlight ==
    returned # "" => \A t \in Tasks : loops[t].pc \notin {"scan", "del", "handler"}

\* C7 as stated: no stop() ends a handler call by cancelling it.
C7_RunsToCompletion == \A t \in Tasks : loops[t].how # "handler"

\* C7: a loop task cancelled by stop() while it is suspended in a handler call
\* leaves the call and the scan there: its next step ends the task, with the
\* baseline and the known skills as they were and no further handler call; and
\* a stop() that awaits a loop task returns only when that task has ended.
C7_CancelsHandler ==
    [][\A t \in Tasks :
         /\ (loops[t].pc = "handler" /\ loops[t].cancel /\ loops'[t].pc # "handler")
            => /\ loops'[t].pc = "done" /\ loops'[t].how = "handler"
               /\ mtimes' = mtimes /\ known_skills' = known_skills /\ deliv' = deliv
         /\ (t \in stopWait /\ t \notin stopWait')
            => loops[t].pc = "done" /\ loops[t].cancel = FALSE]_vars

C7_Witness == returned = "handler"

\* C8: at most one handler call of the watcher is pending at any time.
C8_OneHandler ==
    Cardinality({t \in Tasks : loops[t].pc = "handler" /\ ~loops[t].cancel}) <= 1

\* C9: while Running and between scans, a change of the observed skill for
\* which the handler was not called is still there for the next scan to find;
\* and the handler is called at most once for the skill between two changes.
C9_EachChangeOnce ==
    /\ (running /\ owed /\ NoScan) => Pending(disk, mtimes, Observed)
    /\ Len(deliv) < 2

\* C10: when an undisturbed poll scan that no exception ended is over, the
\* events it passed to the handler are those force_refresh() computes from the
\* baseline and the tree the scan began with, and the baseline it leaves is
\* the one force_refresh() leaves.
C10_RefreshEqualsScan ==
    \A t \in Tasks :
        (ScanOver(t) /\ ~loops[t].err /\ on_change)
        => LET r == ScanAll(root, disk, {})
           IN  /\ SentSet(t) = RefreshChanges(loops[t].base0, loops[t].known0,
                                              r.mtimes, r.known_skills)
               /\ mtimes = r.mtimes
               /\ known_skills = r.known_skills

\* C11: a force_refresh() that comes after another force_refresh() with no
\* change on the disk in between returns, and returns no event.
C11_SecondRefreshEmpty ==
    (last.op = "force_refresh" /\ last.after = "force_refresh")
        => (last.raised = "" /\ last.changes = {})

\* The baseline holds exactly the SKILL.md files on the disk, each with the
\* timestamp it has there.
BaselineIsDisk ==
    /\ \A s \in Skills :
         mtimes[SkillMd(s)] = IF root = "dir" /\ disk[s] >= 1 THEN disk[s] ELSE 0
    /\ known_skills = {s \in Skills : root = "dir" /\ disk[s] >= 1}

\* C12: from a start() on (a restart after stop() included), as long as nothing
\* on the disk changes, the baseline is what the disk holds and the handler is
\* called with no event.
C12_RestartReadsBaseline ==
    synced = "start" => (BaselineIsDisk /\ \A t \in Tasks : loops[t].sent = <<>>)

\* A start() that came after a completed stop() has just returned: it took a
\* baseline with a skill in it and created the loop task.
C12_Witness ==
    /\ last.op = "start" /\ last.after = "stop" /\ last.raised = ""
    /\ synced = "start" /\ running
    /\ known_skills # {}

\* The watcher's own fields and its loop tasks are left as they were.
WatcherUnchanged ==
    UNCHANGED <<running, stopped, task, mtimes, known_skills, loops, cpu, ready, stopWait>>

\* C13: a start() on a watcher that is not running and whose root is missing
\* or is no directory raises FileNotFoundError, respectively
\* NotADirectoryError, and changes nothing: the watcher is not running and no
\* task was created; and whenever the watcher is idle on a root that is a
\* directory, start() can be called and starts it.
C13_FailedStartLeavesIdle ==
    /\ [][(last'.op = "start" /\ ~running /\ root # "dir")
            => /\ last'.raised = (IF root = "missing" THEN "FileNotFoundError"
                                                      ELSE "NotADirectoryError")
               /\ ~running'
               /\ WatcherUnchanged]_vars
    /\ [](( ~running /\ root = "dir" /\ cpu = 0 /\ stopWait = {}) => ENABLED OwnerStart)

\* start() has just raised NotADirectoryError on an idle watcher.
C13_Witness ==
    /\ last.op = "start" /\ last.raised = "NotADirectoryError"
    /\ root = "file" /\ ~running /\ task = 0

\* C14: a start() on a running watcher and a stop() on a watcher that is not
\* running return without raising and change nothing: no task is created, no
\* baseline is taken, no field is written.
C14_NoopCalls ==
    [][((last'.op = "start" /\ running) \/ (last'.op = "stop" /\ ~running))
         => (last'.raised = "" /\ WatcherUnchanged /\ UNCHANGED <<root, disk>>)]_vars

\* start() has just returned on a watcher whose loop is in its wait, with a
\* change on the disk that a new baseline would have taken in.
C14_Witness ==
    /\ last.op = "start" /\ running /\ task # 0
    /\ loops[task].pc = "wait"
    /\ ~BaselineIsDisk

\* The loop task t ends in this step.
Ends(t) == loops[t].pc \notin {"none", "done"} /\ loops'[t].pc \in {"none", "done"}

\* C15: an exception that leaves _check_changes (iterdir() failing, a KeyError,
\* the handler raising) does not end the loop task: nothing but a cancellation
\* ends it; the task goes on to the wait, and past the wait to the test of the
\* while and into the next scan.
C15_LoopSurvivesErrors ==
    [][\A t \in Tasks :
         /\ Ends(t) => loops[t].cancel
         /\ (loops'[t].err /\ ~loops[t].err) => loops'[t].pc = "sleep"
         /\ (loops[t].err /\ ~Ends(t) /\ loops'[t].pc # loops[t].pc) =>
              CASE loops[t].pc = "sleep" ->
                     loops'[t].err /\ loops'[t].pc = (IF stopped THEN "head" ELSE "wait")
                [] loops[t].pc = "wait" -> loops'[t].err /\ loops'[t].pc = "head"
                [] loops[t].pc = "head" -> loops'[t].clean
                [] OTHER -> FALSE]_vars

\* After a scan that raised and the wait that followed it, the task is back
\* at the test of the while of a running watcher.
C15_Witness ==
    \E t \in Tasks : loops[t].pc = "head" /\ loops[t].err /\ running /\ cpu = t

\* The call made has got as far as a frontmatter that is a mapping.
ParsedMapping ==
    /\ result # NoResult /\ call.path = "ok"
    /\ call.content.starts /\ frontmatter_match(Text(call)) /\ call.content.yaml = "dict"

InErrors(m) == \E i \in 1..Len(result.errors) : result.errors[i] = m

\* C16: no call of validate() or validate_text() raises.
C16_NeverRaises == result.raised \in {"", "no call"}

\* C18: the result for a mapping without the key name has the missing-name
\* error, the result for a mapping without the key description has the
\* missing-description error (both when both are absent).
C18_MissingFieldErrors ==
    ParsedMapping =>
        /\ result.raised = ""
        /\ ~Has(call.content.frontmatter, "name")
             => InErrors("Missing required field: 'name'")
        /\ ~Has(call.content.frontmatter, "description")
             => InErrors("Missing required field: 'description'")

\* The value v of the field f (name or description) is refused for its type or
\* for being empty.
FieldRefused(f, v) ==
    /\ ~IsStr(v) => InErrors("'" \o f \o "' must be a string")
    /\ (IsStr(v) /\ v.len = 0) => InErrors("'" \o f \o "' cannot be empty")
    /\ (~IsStr(v) \/ v.len = 0) => ~result.is_valid

\* C19: in every result returned for a mapping, a name or description that is
\* present and no string has the wrong-type error, one that is a string empty
\* after strip() has the cannot-be-empty error, and neither is reported valid.
C19_PresentFieldsChecked ==
    (ParsedMapping /\ result.raised = "") =>
        \A f \in {"name", "description"} :
            Has(call.content.frontmatter, f) => FieldRefused(f, call.content.frontmatter[f])

\* The string v has a character that is not in [a-z0-9-]: whitespace, or a
\* character of the stripped string the pattern refuses.
HasNonKebabChar(v) == IsStr(v) /\ (v.pad > 0 \/ (v.len > 0 /\ ~v.kebab))

\* C20: the result for a name with a character outside [a-z0-9-] has the
\* kebab-case error and is not valid.
C20_KebabError ==
    (ParsedMapping /\ HasNonKebabChar(call.content.frontmatter.name)) =>
        /\ result.raised = ""
        /\ InErrors("'name' should be kebab-case")
        /\ ~result.is_valid

\* C17: a call made while another call runs on the same validator returns the
\* result the same call returns when it runs alone.
C17_Reentrant ==
    \A i \in Threads :
        threads[i].pc = "done" => threads[i].result = ResultOf(threads[i].call)

\* C21: the result for a description with < or > in it has the angle-bracket
\* error and is not valid, whatever the length of the description.
C21_AngleBrackets ==
    (ParsedMapping /\ IsStr(call.content.frontmatter.description)
                   /\ call.content.frontmatter.description.angle) =>
        /\ result.raised = ""
        /\ InErrors("'description' cannot contain angle brackets")
        /\ ~result.is_valid

\* How often the message m is in the errors of the result.
CountErrors(m) == Cardinality({i \in 1..Len(result.errors) : result.errors[i] = m})

\* C22: the result for a mapping with a key that is not allowed has the
\* unexpected-properties error exactly once; the result for a mapping whose
\* keys are all allowed does not have it.
C22_UnexpectedProperties ==
    ParsedMapping =>
        /\ result.raised = ""
        /\ CountErrors("Unexpected properties in frontmatter") =
             (IF Unexpected(call.content.frontmatter) # {} THEN 1 ELSE 0)

\* C25: a call made without a YAML parser raises, or reports the condition
\* apart from the document's errors: the errors of its result do not have it.
C25_NoYamlIsNotADocumentError ==
    (result # NoResult /\ call.path = "ok" /\ call.content.starts
        /\ frontmatter_match(Text(call))
        /\ call.content.yaml = "ImportError") =>
        (result.raised # "" \/ ~InErrors("PyYAML is required for validation"))


\* The rules of the data model for a value after strip(): name is kebab-case
\* of 1..64 characters without a hyphen at either end or a double hyphen and
\* is the directory name; description has 1..1024 characters and no angle
\* bracket; compatibility is not there, null, or a string of at most 500.
NameRules(v) ==
    /\ IsStr(v) /\ v.len >= 1 /\ v.len <= MAX_NAME_LENGTH
    /\ v.kebab /\ v.hyphens /\ v.same
DescriptionRules(v) ==
    IsStr(v) /\ v.len >= 1 /\ v.len <= MAX_DESCRIPTION_LENGTH /\ ~v.angle
CompatibilityRules(v) ==
    \/ v.type \in {"absent", "NoneType"}
    \/ IsStr(v) /\ v.len + v.pad <= MAX_COMPATIBILITY_LENGTH
WellFormed ==
    /\ ParsedMapping
    /\ NameRules(call.content.frontmatter.name)
    /\ DescriptionRules(call.content.frontmatter.description)
    /\ Unexpected(call.content.frontmatter) = {}
ValidResult ==
    /\ result.raised = ""
    /\ result.is_valid
    /\ result.errors = <<>>
    /\ result.skill_name = call.content.frontmatter.name

\* C23 (as stated): a document with well-formed frontmatter, a name that
\* satisfies the name rules and is the directory name, a description that
\* satisfies the description rules and only allowed keys is valid: is_valid
\* is true, errors is empty and skill_name is the parsed name.
C23_WellFormedIsValid == WellFormed => ValidResult

\* C23 (amended): the same, for a document whose compatibility, when the key
\* is there, is null or a string of at most 500 characters.
C23_WellFormedCompatibleIsValid ==
    (WellFormed /\ CompatibilityRules(call.content.frontmatter.compatibility)) => ValidResult
C23_Witness ==
    /\ WellFormed
    /\ IsStr(call.content.frontmatter.compatibility)
    /\ call.content.frontmatter.description.len < ShortDescription
    /\ call.content.frontmatter.others = {"license"}
    /\ ValidResult
    /\ result.warnings # <<>>


\* What the other entry point returns for the text and the directory name of
\* the call that was made.
OtherCall == [call EXCEPT !.api = IF call.api = "validate" THEN "validate_text" ELSE "validate"]
OtherResult == IF OtherCall.api = "validate" THEN validate(OtherCall).result
               ELSE validate_text(OtherCall).result

\* C24: for every content and directory name, validate_text(content, name)
\* and validate(path of a directory called name whose SKILL.md holds content)
\* return identical errors, warnings and is_valid.
C24_TextAndPathAgree ==
    (result # NoResult /\ call.path = "ok") =>
        /\ result.raised = OtherResult.raised
        /\ result.errors = OtherResult.errors
        /\ result.warnings = OtherResult.warnings
        /\ result.is_valid = OtherResult.is_valid


\* C26: a subdirectory without a SKILL.md file never produces any event and
\* is never contained in get_known_skills(); when such a directory later
\* gains a SKILL.md, the watcher emits CREATED for it, never MODIFIED.  While
\* the observed subdirectory has had no SKILL.md, no step emits or returns an
\* event for it and it is in neither dict; the first event after it gained
\* one is CREATED.
C26_NonSkillIgnored ==
    [][/\ nonskill = "never" =>
            /\ \A e \in StepEvents : e.skill_name # Observed
            /\ Observed \notin known_skills /\ Observed \notin known_skills'
            /\ mtimes'[SkillMd(Observed)] = 0
       /\ nonskill = "gained" =>
            \A e \in StepEvents : e.skill_name = Observed => e.change_type = "CREATED"]_vars
C26_Witness ==
    /\ nonskill = "known" /\ disk[Observed] >= 1
    /\ running /\ on_change
    /\ deliv = <<"CREATED">>
    /\ Observed \in known_skills


\* The step is the caller changing the dict it got.
MutateStep == snap.has /\ snap'.has /\ snap'.mutated /\ snap'.val # snap.val

\* C27: get_known_skills() returns a snapshot copy: mutating the returned
\* mapping never changes the watcher's own state, later scans never change a
\* mapping that was already returned, and after a completed baseline scan the
\* snapshot contains exactly the subdirectories that hold a SKILL.md.
C27_SnapshotCopy ==
    [][/\ MutateStep => UNCHANGED <<running, stopped, task, mtimes, known_skills, loops>>
       /\ (snap.has /\ ~MutateStep /\ last'.op # "get_known_skills") => SnapVal' = SnapVal
       /\ (last'.op = "get_known_skills" /\ last'.after # "") =>
            SnapVal' = {s \in Skills : disk[s] >= 1}]_vars
C27_Witness ==
    /\ snap.has /\ snap.mutated
    /\ SnapVal = {"B"}
    /\ known_skills = {Observed}
    /\ task # 0 /\ loops[task].pc = "wait"


\* A stop() returns in this step: at once, or when the task it awaited has
\* finished.
StopReturns ==
    \/ last'.op = "stop" /\ stopWait' = stopWait
    \/ stopWait' # stopWait /\ stopWait' \subseteq stopWait

\* C28: scoped use guarantees stop: entering the async context starts the
\* watcher (it is Running inside the scope), and on exit from the scope,
\* normally or by an exception raised in the body, stop() has been performed
\* and the watcher is not Running.  When __aenter__ returns the watcher is
\* running with a loop task; when __aexit__ returns it is not running, the
\* stop signal is set or no start was made, and no loop task is left.
C28_ScopedUse ==
    [][/\ (last'.op = "start" /\ last'.raised = "") =>
            (running' /\ task' # 0 /\ loops'[task'].pc \notin {"none", "done"})
       /\ StopReturns =>
            /\ ~running' /\ task' = 0
            /\ \A t \in Tasks : loops'[t].pc \in {"none", "done"}]_vars
C28_Witness ==
    /\ returned = "handler"
    /\ ~running /\ stopped /\ task = 0 /\ stopWait = {}
    /\ disk[Observed] >= 1


\* C29: in the poll loop, after each scan the loop waits up to the poll
\* interval for the stop signal; whenever that wait ends because the stop
\* signal is set, the loop exits without performing another scan, so two
\* consecutive scans of one loop are always separated by a full poll-interval
\* timeout, for every interleaving of start() and stop() calls.  A loop task
\* whose wait_for returns with the stop signal set comes to the test of the
\* while with _running false, so it leaves the loop.
C29_NoScanAfterStopSignal ==
    [][\A t \in Tasks :
         (loops[t].pc \in {"sleep", "wait"} /\ loops'[t].pc = "head" /\ stopped)
            => ~running]_vars


\* C30: a slow asynchronous handler does not corrupt the baseline: whatever
\* force_refresh() calls or file-system changes occur while a handler call is
\* pending inside a poll scan, the resumed scan never emits an event that
\* contradicts the disk (no DELETED for a SKILL.md that exists and has existed
\* since it entered the baseline) and never drops such a file from the
\* baseline.  While the disk is as the last baseline scan read it, no scan
\* step emits DELETED for a SKILL.md that is there, and none removes its
\* entry.
C30_SlowHandlerKeepsBaseline ==
    [][(synced # "" /\ disk' = disk) =>
         \A s \in Skills :
           (disk[s] >= 1 /\ mtimes[SkillMd(s)] # 0) =>
              /\ \A e \in StepEvents : e.skill_name = s => e.change_type # "DELETED"
              /\ mtimes'[SkillMd(s)] # 0]_vars


\* C31: the watcher's baseline state is cleared at stop: after stop() returns
\* the timestamp baseline is empty and get_known_skills() returns an empty
\* mapping until the next start().  When a stop() that awaited the loop task
\* of a running watcher returns, both dicts are empty.
C31_StopClearsBaseline ==
    [][(stopWait' # stopWait /\ stopWait' \subseteq stopWait) =>
         (Keys(mtimes') = {} /\ known_skills' = {})]_vars


\* C32: within one poll scan, every CREATED and MODIFIED event is dispatched
\* before any DELETED event of that scan, and each detected change is
\* dispatched exactly once in that scan.  In the list of the events a scan
\* has handed to _emit no skill occurs twice and nothing follows a DELETED but
\* a DELETED.
C32_CreatedModifiedBeforeDeleted ==
    \A t \in Tasks :
        \A i, j \in 1..Len(loops[t].sent) :
            i < j => /\ loops[t].sent[i].skill_name # loops[t].sent[j].skill_name
                     /\ loops[t].sent[i].change_type = "DELETED"
                          => loops[t].sent[j].change_type = "DELETED"
C32_Witness ==
    \E t \in Tasks :
        /\ Len(loops[t].sent) = 2
        /\ loops[t].sent[1].change_type = "MODIFIED"
        /\ loops[t].sent[2].change_type = "DELETED"
        /\ loops[t].pc = "sleep" /\ ~loops[t].err


\* The call ends at one of the structural checks: a path check of validate(),
\* the start of the content, the frontmatter block, or the YAML load that
\* fails or gives no mapping.
EarlyReturn ==
    \/ call.path # "ok"
    \/ ~call.content.starts
    \/ ~frontmatter_match(Text(call))
    \/ call.content.yaml \in {"YAMLError", "scalar"}

\* C33: each structural early-return case (path missing, path not a
\* directory, SKILL.md missing or not a regular file, read or decode failure,
\* content not starting with '---', no well-formed frontmatter block, YAML
\* parse error, non-mapping YAML root) yields a result with exactly one error,
\* no warnings, is_valid false, and skill_name and description unset.
C33_EarlyReturnOneError ==
    (result # NoResult /\ EarlyReturn) =>
        /\ result.raised = ""
        /\ Len(result.errors) = 1
        /\ result.errors[1] \in PathErrors \cup
             {"YAML frontmatter must start at line 1", "Invalid frontmatter format",
              "Invalid YAML in frontmatter", "Frontmatter must be a YAML dictionary"}
        /\ result.warnings = <<>>
        /\ ~result.is_valid
        /\ result.skill_name = Null /\ result.description = Null
C33_Witness ==
    /\ call.api = "validate" /\ call.path = "ok"
    /\ call.content.crlf /\ call.content.yaml = "YAMLError"
    /\ result.errors = <<"Invalid YAML in frontmatter">>
    /\ ~result.is_valid


\* The first diagnostic that applies to a name, and to a description, in the
\* order of the field-value check ("" for none).
NameDiagnostic(v) ==
    IF v.type = "absent" THEN ""
    ELSE IF ~IsStr(v) THEN "'name' must be a string"
    ELSE IF v.len = 0 THEN "'name' cannot be empty"
    ELSE IF ~v.kebab THEN "'name' should be kebab-case"
    ELSE IF ~v.hyphens THEN "'name' cannot start/end with hyphen"
    ELSE IF v.len > MAX_NAME_LENGTH THEN "'name' is too long"
    ELSE IF ~v.same THEN "'name' does not match directory name"
    ELSE ""
DescriptionDiagnostic(v) ==
    IF v.type = "absent" THEN ""
    ELSE IF ~IsStr(v) THEN "'description' must be a string"
    ELSE IF v.len = 0 THEN "'description' cannot be empty"
    ELSE IF v.angle THEN "'description' cannot contain angle brackets"
    ELSE IF v.len > MAX_DESCRIPTION_LENGTH THEN "'description' is too long"
    ELSE IF v.len < ShortDescription THEN "'description' is quite short"
    ELSE ""
NameMessages ==
    {"'name' must be a string", "'name' cannot be empty", "'name' should be kebab-case",
     "'name' cannot start/end with hyphen", "'name' is too long",
     "'name' does not match directory name"}
DescriptionMessages ==
    {"'description' must be a string", "'description' cannot be empty",
     "'description' cannot contain angle brackets", "'description' is too long",
     "'description' is quite short"}
\* The diagnostics of the result that are in M, in the order errors, warnings.
Diagnostics(M) == SelectSeq(result.errors \o result.warnings, LAMBDA m : m \in M)
Expected(d) == IF d = "" THEN <<>> ELSE <<d>>

\* C34: in the field-value check, name yields at most one diagnostic, the
\* first that applies in the order wrong type, empty after trim, not
\* kebab-case, leading/trailing/double hyphen, longer than 64 characters
\* (errors), mismatch with the directory name (warning), and description
\* yields at most one, the first that applies in the order wrong type, empty,
\* contains < or >, longer than 1024 (errors), shorter than 50 (warning);
\* lengths of exactly 64, 1024 and 50 trigger nothing.
C34_FirstDiagnosticOnly ==
    (ParsedMapping /\ result.raised = "") =>
        /\ Diagnostics(NameMessages) = Expected(NameDiagnostic(call.content.frontmatter.name))
        /\ Diagnostics(DescriptionMessages) =
             Expected(DescriptionDiagnostic(call.content.frontmatter.description))


\* The warnings _validate_body can add, and those of them in the result.
BodyMessages ==
    {"SKILL.md body is empty", "No H1 heading (# Title) found in body",
     "No H2 sections (## Section) found in body", "Body is quite long",
     "No code blocks found"}
BodyWarnings == {result.warnings[i] : i \in 1..Len(result.warnings)} \cap BodyMessages
Once(m) == Cardinality({i \in 1..Len(result.warnings) : result.warnings[i] = m}) = 1

\* C35: a body that is empty after trimming yields exactly the empty-body
\* warning and no other body warning; for a non-empty body the missing-H1,
\* missing-H2, more-than-500-lines and no-code-block warnings are each emitted
\* exactly when their own condition holds, independently of one another.
C35_BodyWarnings ==
    (ParsedMapping /\ result.raised = "") =>
        LET b == call.content.body
        IN  /\ \A m \in BodyWarnings : Once(m)
            /\ b.empty => BodyWarnings = {"SKILL.md body is empty"}
            /\ ~b.empty =>
                 BodyWarnings =
                   {m \in BodyMessages :
                      \/ m = "No H1 heading (# Title) found in body" /\ ~b.h1
                      \/ m = "No H2 sections (## Section) found in body" /\ ~b.h2
                      \/ m = "Body is quite long" /\ b.lines > LongBody
                      \/ m = "No code blocks found" /\ ~b.fence}

\* C36: a non-empty body produces the no-code-blocks warning exactly when it
\* contains no fenced code block marker: any fence, with or without a language
\* tag after it, suppresses the warning.
C36_AnyFenceIsACodeBlock ==
    (ParsedMapping /\ result.raised = "" /\ ~call.content.body.empty) =>
        ("No code blocks found" \in BodyWarnings <=> ~call.content.body.fence)


C38_RaiseKeepsBaseline ==
    /\ [][RaisedNow # {} => (mtimes' = mtimes /\ known_skills' = known_skills)]_vars
    /\ [](\A t \in Tasks :
            (loops[t].pc = "sleep" /\ redo.scans = 1) => redo.ev \in SentSet(t))

C38_Witness ==
    \E t \in Tasks :
        /\ loops[t].pc = "sleep" /\ ~loops[t].err /\ redo.scans = 1
        /\ redo.ev = SkillChangeEvent("A", "DELETED", SkillMd("A"))
        /\ redo.ev \in SentSet(t)
        /\ "A" \notin known_skills

C38_WitnessModified ==
    \E t \in Tasks :
        /\ loops[t].pc = "sleep" /\ redo.scans = 1
        /\ redo.ev = SkillChangeEvent("B", "MODIFIED", SkillMd("B"))
        /\ redo.ev \in SentSet(t) /\ loops[t].oserr = {}


\* C39: after every completed scan (the baseline scan of start(), a poll scan
\* that ended without exception, force_refresh()) a skill name is among the
\* known skills if and only if the SKILL.md of its directory has a timestamp
\* in the baseline, also when a stat() failed during the scan.
KnownIffTimestamp == \A s \in Skills : s \in known_skills <=> mtimes[SkillMd(s)] # 0
C39_KnownIffTimestamp ==
    /\ []((\E t \in Tasks : loops[t].pc = "sleep" /\ ~loops[t].err) => KnownIffTimestamp)
    /\ [][( /\ last'.raised = ""
            /\ \/ last'.op = "force_refresh"
               \/ last'.op = "start" /\ ~running )
          => KnownIffTimestamp']_vars


\* C40: a poll scan that begins on a running watcher while the root directory
\* does not exist is over at once: it calls the handler for nothing, raises
\* nothing, and leaves the timestamps and the known skills as they were.
C40_MissingRootScan ==
    [][\A t \in Tasks :
         ( /\ cpu = t /\ loops[t].pc = "head" /\ running /\ root = "missing"
           /\ loops'[t] # loops[t] )
         => /\ loops'[t].pc = "sleep" /\ ~loops'[t].err
            /\ loops'[t].sent = <<>> /\ StepEvents = {}
            /\ mtimes' = mtimes /\ known_skills' = known_skills]_vars

C40_Witness ==
    \E t \in Tasks :
        /\ loops[t].pc = "sleep" /\ loops[t].clean /\ root = "missing" /\ running
        /\ loops[t].sent = <<>>
        /\ known_skills = {"A"} /\ mtimes[SkillMd("A")] # 0

=============================================================================
